---- MODULE Spec2Model ----
(***************************************************************************)
(* Position lifecycle and order-execution engine of bibot-ai:              *)
(* TradingExecutor -> OrderManager -> PositionManager -> CacheManager,     *)
(* over the BinanceClient wrapper and its retry decorator.                 *)
(*                                                                         *)
(* The program is single threaded: every public operation is one atomic    *)
(* step.  The exchange is the environment: between two operations bracket  *)
(* orders may trigger or be cancelled and the net position may be closed.  *)
(* Order ids are the exchange's counter; the position amount is counted in *)
(* units of position_size.                                                 *)
(***************************************************************************)
EXTENDS Integers, Sequences, FiniteSets, TLC

\* ------------------------------------------------------------------ bounds
MaxMaxPositions == 2      \* largest configured max_positions explored
MaxOpened == 2            \* positions opened in one behaviour
MaxFaults == 2            \* exchange and disk failures in one behaviour
MaxBotOrders == 1         \* market orders the exchange accepts from the BiBot of main.py

\* ------------------------------------------------------- program constants
max_retries == 3          \* @retry(max_retries=3)
position_size == 1        \* config.trading.position_size, the unit of quantity

FillPrices == {65000}     \* avgPrice values the exchange reports for a fill
Sides == {"BUY", "SELL"}

VARIABLES
    max_positions,        \* config.trading.max_positions
    pm_loaded,            \* ServiceRegistry._position_manager is not None
    active_positions,     \* PositionManager.active_positions
    cache_file,           \* cache/positions_<pair>.json on disk
    open_orders,          \* exchange: ids of the open orders of the pair
    position_amt,         \* exchange: positionAmt of the pair
    next_order_id,        \* exchange: next order id to hand out
    now,                  \* datetime.now(), a logical clock
    faults,               \* failures the environment has answered with so far
    last,                 \* what the last operation did and returned
    call,                 \* one BinanceClient call, followed through its retries
    bot,                  \* the BiBot process of main.py: its place in run()
    threads,              \* execute-trade calls running side by side
    save                  \* one CacheManager.save, followed through its writes

vars == <<max_positions, pm_loaded, active_positions, cache_file, open_orders,
          position_amt, next_order_id, now, faults, last, call, bot, threads, save>>

\* ----------------------------------------------------------------- helpers
Range(s) == {s[i] : i \in DOMAIN s}

\* ids of the bracket orders of a position
OrderIds(p) == {p.orders[i].id : i \in DOMAIN p.orders}

\* ------------------------------------------------------------- cache file
Absent == [kind |-> "absent", items |-> <<>>]      \* no file
Corrupt == [kind |-> "corrupt", items |-> <<>>]    \* not parseable as JSON
EmptyDict == [kind |-> "dict", items |-> <<>>]     \* the JSON object {}
JsonList(items) == [kind |-> "list", items |-> items]

\* (mutant) the timestamp is left out of the dump
model_dump_without_timestamp(p) ==
    [main_order_id |-> p.main_order_id,
     entry_price |-> p.entry_price,
     side |-> p.side,
     quantity |-> p.quantity,
     orders |-> [i \in DOMAIN p.orders |->
                    [id |-> p.orders[i].id, type |-> p.orders[i].type]]]

\* Position.model_dump(mode='json'): the datetime becomes an ISO string; the
\* extra fields the model was built with (extra = "allow") are dumped too
model_dump(p) ==
    [f \in DOMAIN p |->
        CASE f = "orders" -> [i \in DOMAIN p.orders |->
                                 [id |-> p.orders[i].id, type |-> p.orders[i].type]]
          [] f = "timestamp" -> [iso |-> p.timestamp]
          [] OTHER -> p[f]]

RequiredFields == {"main_order_id", "entry_price", "side", "quantity", "orders"}

\* does Position.model_validate accept the cached object d
IsValidRecord(d) ==
    /\ RequiredFields \subseteq DOMAIN d
    /\ d.side \in Sides
    /\ \A i \in DOMAIN d.orders :
          /\ {"id", "type"} \subseteq DOMAIN d.orders[i]
          /\ d.orders[i].type \in {"stop_loss", "take_profit"}
    /\ ("timestamp" \in DOMAIN d => DOMAIN d.timestamp = {"iso"})

\* Position.model_validate(d) for an accepted d; a missing timestamp takes the
\* default datetime.now(), and a field the model does not declare is kept
\* (extra = "allow")
model_validate(d, t) ==
    [f \in DOMAIN d \cup {"timestamp"} |->
        CASE f = "orders" -> [i \in DOMAIN d.orders |->
                                 [type |-> d.orders[i].type, id |-> d.orders[i].id]]
          [] f = "timestamp" -> (IF "timestamp" \in DOMAIN d THEN d.timestamp.iso ELSE t)
          [] OTHER -> d[f]]

\* CacheManager.save: open(file, 'w') truncates, json.dump writes; every
\* exception is swallowed and reported as False
SaveOutcomes == {"ok", "open_failed", "write_failed"}

CacheSave(file, data, outcome) ==
    CASE outcome = "ok" -> JsonList(data)
      [] outcome = "open_failed" -> file
      [] OTHER -> Corrupt

\* a file json.dump has written only the first items of a list to; it does
\* not parse
Partial(items) == [kind |-> "partial", items |-> items]

\* CacheManager.load: None for a missing or unparseable file
CacheLoad(file) ==
    IF file.kind \in {"absent", "corrupt", "partial"} THEN [none |-> TRUE, value |-> file]
    ELSE [none |-> FALSE, value |-> file]

\* what CacheManager.load returns: <<>> for None, <<data>> otherwise
load(file) == IF CacheLoad(file).none THEN <<>> ELSE <<CacheLoad(file).value>>

\* no save is followed
NoSave == [pc |-> "none", data |-> <<>>, previous |-> Absent, returned |-> <<>>,
           loaded |-> <<>>]

\* CacheManager.clear: rewrites an existing file as {}
CacheClear(file) == IF file.kind = "absent" THEN file ELSE EmptyDict

\* ------------------------------------------------------ retry decorator
\* What one request sent to the exchange comes to:
\*   ok     accepted, the response arrives
\*   lost   accepted, but the response does not arrive (a
\*          requests.exceptions.RequestException such as a read timeout)
\*   error  refused with a retriable exception
\*   fatal  refused with one of the codes -2014, -2015, -1021, -1022
AttemptOutcomes == {"ok", "lost", "error", "fatal"}

\* The answers to the successive requests of one call: k times a, then t for
\* ever.  One answer more than max_retries, so that a request beyond the retry
\* budget would be seen.
Stream(k, a, t) == [i \in 1..(max_retries + 1) |-> IF i <= k THEN a ELSE t]

\* wrapper(): for attempt in range(n): return on success, re-raise a
\* non-retriable code at once, otherwise go round again; raise after n failures.
\* calls = requests sent, accepted = those of them the exchange accepted.
RECURSIVE retry_from(_, _, _, _)
retry_from(stream, n, attempt, accepted) ==
    IF attempt >= n THEN [ok |-> FALSE, calls |-> attempt, accepted |-> accepted]
    ELSE IF stream[attempt + 1] = "ok"
         THEN [ok |-> TRUE, calls |-> attempt + 1, accepted |-> accepted + 1]
    ELSE IF stream[attempt + 1] = "fatal"
         THEN [ok |-> FALSE, calls |-> attempt + 1, accepted |-> accepted]
    ELSE retry_from(stream, n, attempt + 1,
                    IF stream[attempt + 1] = "lost" THEN accepted + 1 ELSE accepted)

retry(stream) == retry_from(stream, max_retries, 0, 0)

\* str(e) of the exception a refused or unanswered request ends with
str(answer) ==
    CASE answer = "fatal" -> "APIError(code=-2015): Invalid API-key, IP, or permissions for action"
      [] answer = "lost" -> "HTTPSConnectionPool: Read timed out"
      [] OTHER -> "APIError(code=-1001): Internal error; unable to process your request"

\* The decorator once more, one step of wrapper() at a time, for a single call
\* of a BinanceClient method.  Besides the answers above a request may be
\*   unknown  refused with code -2011, the order is not open any more
\*   other    ended by an exception that is not in allowed_exceptions
Answers == AttemptOutcomes \cup {"unknown", "other"}

\* a method decorated with @retry and nothing else, and cancel_order
Funcs == {"get_open_orders", "cancel_order"}

retry_delay == 1

backoff_factor == 2

\* (mutant) the -2011 answer is raised like any other
cancel_order_reraises(answer) ==
    IF answer = "ok" THEN [raised |-> FALSE, value |-> "ok"]
    ELSE [raised |-> TRUE, value |-> answer]

\* the body of cancel_order: the response, a CANCELED result for -2011, or
\* the exception raised again
cancel_order(answer) ==
    IF answer = "ok" THEN [raised |-> FALSE, value |-> "ok"]
    ELSE IF answer = "unknown" THEN [raised |-> FALSE, value |-> "CANCELED"]
    ELSE [raised |-> TRUE, value |-> answer]

\* func(*args, **kwargs): what the decorated body returns or raises
func(name, answer) ==
    IF name = "cancel_order" THEN cancel_order(answer)
    ELSE IF answer = "ok" THEN [raised |-> FALSE, value |-> "ok"]
    ELSE [raised |-> TRUE, value |-> answer]

\* except allowed_exceptions: BinanceAPIException or RequestException
is_allowed_exception(answer) == answer # "other"

\* (mutant) no code is exempt from the retries
is_non_retriable_never(answer) == FALSE

\* e.code in (-2014, -2015, -1021, -1022)
is_non_retriable(answer) == answer = "fatal"

\* (mutant) range(max_retries + 1)
in_range_one_more(attempt) == attempt <= max_retries

\* for attempt in range(max_retries)
in_range(attempt) == attempt < max_retries

RECURSIVE power(_, _)
power(b, e) == IF e = 0 THEN 1 ELSE b * power(b, e - 1)

\* wait_time = delay * (backoff_factor ** attempt)
wait_time(attempt) == retry_delay * power(backoff_factor, attempt)

\* no call is followed
NoCall ==
    [name |-> "", stream |-> <<>>, pc |-> "none", attempt |-> 0, requests |-> 0,
     waits |-> <<>>, last_exception |-> <<>>, result |-> <<>>]

\* a call on entry of wrapper()
NewCall(name, stream) == [NoCall EXCEPT !.name = name, !.stream = stream, !.pc = "try"]

\* ------------------------------------------------------------- the world
\* What one operation reads and writes, and the trace of what it did.
NoTrace ==
    [lazy_load |-> FALSE,       \* load_positions ran inside this operation
     fetch |-> "none",          \* outcome of the two fetches of a reconciliation
     judged_closed |-> {},      \* main_order_id of the positions judged closed
     cancels |-> {},            \* order ids cancel_order was called for
     cancel_failed |-> {},      \* those whose cancel_order raised
     saves |-> <<>>,            \* outcome of every cache.save, in order
     raised |-> FALSE,          \* an exception reached the caller
     seen_count |-> -1,         \* current_positions read by the limit check
     success |-> FALSE,         \* result["success"]
     error |-> "",              \* result["error"]
     market_failed |-> FALSE,   \* client.place_market_order raised
     exception |-> "",          \*   and str(e) of what it raised
     requests |-> <<>>,         \* the futures_create_order requests, in order
     market_sub |-> 0,          \* futures_create_order requests, MARKET
     sl_sub |-> 0,              \*   STOP_MARKET
     tp_sub |-> 0,              \*   TAKE_PROFIT_MARKET
     market_placed |-> 0,       \* orders the exchange accepted, MARKET
     sl_placed |-> 0,
     tp_placed |-> 0,
     position |-> <<>>,         \* <<p>> when OrderManager returned Position p
     open_order_ids |-> {},     \* the snapshot a reconciliation fetched
     exists |-> FALSE,          \*   and its position_exists_on_binance
     target |-> <<>>,           \* <<p>> when cleanup_position was called with p
     signals |-> <<>>,          \* <<trading_signals>> the executor node was given
     risk_assessment |-> <<>>,  \* <<state.risk_assessment>> the risk analyzer wrote
     route |-> "",              \* what _risk_router returned
     levels |-> <<>>,           \* <<l>>: a call of _calculate_sl_tp_levels and its result
     pre |-> <<>>]              \* <<state>> the operation started from

\* the program, disk and exchange state an operation starts from
Pre ==
    [loaded |-> pm_loaded, active |-> active_positions, file |-> cache_file,
     orders |-> open_orders]

World ==
    [active |-> active_positions, file |-> cache_file, orders |-> open_orders,
     amt |-> position_amt, next |-> next_order_id, now |-> now,
     t |-> [NoTrace EXCEPT !.pre = <<Pre>>]]

\* --------------------------------------------------------- PositionManager
\* (mutant) a failed cache write undoes what the operation did in memory
save_positions_rollback(w, outcome) ==
    [w EXCEPT !.file = CacheSave(w.file, [i \in DOMAIN w.active |-> model_dump(w.active[i])],
                                 outcome),
              !.active = IF outcome = "ok" THEN @ ELSE w.t.pre[1].active,
              !.t.saves = Append(w.t.saves, outcome)]

\* _save_positions: dump every position, cache.save, log the result
save_positions(w, outcome) ==
    [w EXCEPT !.file = CacheSave(w.file, [i \in DOMAIN w.active |-> model_dump(w.active[i])],
                                 outcome),
              !.t.saves = Append(w.t.saves, outcome)]

\* (mutant) the cache is written before the position is appended
add_position_save_first(w, p, outcome) ==
    [save_positions(w, outcome) EXCEPT !.active = Append(w.active, p)]

\* add_position: append, then save
add_position(w, p, outcome) ==
    save_positions([w EXCEPT !.active = Append(w.active, p)], outcome)

\* get_position_count / has_reached_position_limit
get_position_count(w) == Len(w.active)

\* (mutant) the limit is compared with > instead of >=
has_reached_position_limit_off_by_one(w, limit) == get_position_count(w) > limit

has_reached_position_limit(w, limit) == get_position_count(w) >= limit

\* Condition 2 of check_closed_positions: some SL/TP id is in the snapshot
associated_orders_open(p, open_order_ids) ==
    \E i \in DOMAIN p.orders : p.orders[i].id \in open_order_ids

\* Condition 1: the pair is among the symbols with a nonzero positionAmt
position_exists_on_binance(amt) == amt # 0

\* (mutant) only the position amount decides, as in the legacy BiBot loop
is_closed_amount_only(p, open_order_ids, amt) == ~position_exists_on_binance(amt)

\* the if / elif that sets is_closed
is_closed(p, open_order_ids, amt) ==
    IF ~position_exists_on_binance(amt) THEN TRUE
    ELSE IF ~associated_orders_open(p, open_order_ids) THEN TRUE
    ELSE FALSE

\* (mutant) only the orders the snapshot shows as open are cancelled
cancel_targets_open_only(p, open_order_ids) ==
    SelectSeq(p.orders, LAMBDA o : o.id \in open_order_ids)

\* the orders cancel_order is called for once position p was judged closed:
\* every one of position.orders, whatever the snapshot says
cancel_targets(p, open_order_ids) == p.orders

\* client.cancel_order as its caller sees it: it raises for the ids in errs;
\* otherwise an open order is cancelled and an unknown one (-2011) is answered
\* with a CANCELED result.  The caller's try / except swallows a raise and the
\* loop goes on with the next order.
RECURSIVE cancel_each(_, _, _)
cancel_each(w, orders, errs) ==
    IF orders = <<>> THEN w
    ELSE
        LET id == Head(orders).id
            w1 == [w EXCEPT !.t.cancels = @ \cup {id},
                            !.t.cancel_failed = IF id \in errs THEN @ \cup {id} ELSE @,
                            !.orders = IF id \in errs THEN @ ELSE @ \ {id}]
        IN  cancel_each(w1, Tail(orders), errs)

\* the cancels of the positions judged closed, position by position
RECURSIVE cancel_closed(_, _, _, _)
cancel_closed(w, positions, open_order_ids, errs) ==
    IF positions = <<>> THEN w
    ELSE cancel_closed(cancel_each(w, cancel_targets(Head(positions), open_order_ids), errs),
                       Tail(positions), open_order_ids, errs)

FetchOutcomes == {"ok", "orders_failed", "positions_failed"}

\* (mutant) a failed fetch is taken for an empty answer
check_closed_positions_empty_on_failure(w, in) ==
    IF w.active = <<>> THEN w
    ELSE
        LET open_order_ids == IF in.fetch = "orders_failed" THEN {} ELSE w.orders
            amt == IF in.fetch = "positions_failed" THEN 0 ELSE w.amt
            closed(p) == is_closed(p, open_order_ids, amt)
            positions_to_remove == SelectSeq(w.active, closed)
            positions_kept == SelectSeq(w.active, LAMBDA p : ~closed(p))
            w1 == [cancel_closed(w, positions_to_remove, open_order_ids, in.errs) EXCEPT
                      !.t.fetch = in.fetch,
                      !.t.open_order_ids = open_order_ids,
                      !.t.exists = position_exists_on_binance(amt),
                      !.t.judged_closed =
                          {positions_to_remove[i].main_order_id :
                              i \in DOMAIN positions_to_remove}]
        IN  IF positions_to_remove # <<>>
            THEN save_positions([w1 EXCEPT !.active = positions_kept], in.save)
            ELSE w1

\* (mutant) the cache is saved at the end of every pass
check_closed_positions_always_saves(w, in) ==
    IF w.active = <<>> THEN w
    ELSE IF in.fetch # "ok" THEN [w EXCEPT !.t.fetch = in.fetch]
    ELSE
        LET open_order_ids == w.orders
            closed(p) == is_closed(p, open_order_ids, w.amt)
            positions_to_remove == SelectSeq(w.active, closed)
            positions_kept == SelectSeq(w.active, LAMBDA p : ~closed(p))
            w1 == [cancel_closed(w, positions_to_remove, open_order_ids, in.errs) EXCEPT
                      !.t.fetch = "ok",
                      !.t.open_order_ids = open_order_ids,
                      !.t.exists = position_exists_on_binance(w.amt),
                      !.t.judged_closed =
                          {positions_to_remove[i].main_order_id :
                              i \in DOMAIN positions_to_remove}]
        IN  save_positions([w1 EXCEPT !.active = positions_kept], in.save)

\* check_closed_positions.  in.fetch: outcome of get_open_orders and
\* get_positions; in.errs: ids whose cancel raises; in.save: cache.save outcome
check_closed_positions(w, in) ==
    IF w.active = <<>> THEN w
    ELSE IF in.fetch # "ok" THEN [w EXCEPT !.t.fetch = in.fetch]
    ELSE
        LET open_order_ids == w.orders
            closed(p) == is_closed(p, open_order_ids, w.amt)
            positions_to_remove == SelectSeq(w.active, closed)
            positions_kept == SelectSeq(w.active, LAMBDA p : ~closed(p))
            w1 == [cancel_closed(w, positions_to_remove, open_order_ids, in.errs) EXCEPT
                      !.t.fetch = "ok",
                      !.t.open_order_ids = open_order_ids,
                      !.t.exists = position_exists_on_binance(w.amt),
                      !.t.judged_closed =
                          {positions_to_remove[i].main_order_id :
                              i \in DOMAIN positions_to_remove}]
        IN  IF positions_to_remove # <<>>
            THEN save_positions([w1 EXCEPT !.active = positions_kept], in.save)
            ELSE w1

\* (mutant) one record that fails validation makes the whole load come up empty
load_positions_all_or_nothing(w, in) ==
    LET cached_data == CacheLoad(w.file)
        w0 == [w EXCEPT !.t.lazy_load = TRUE]
    IN  IF cached_data.none \/ cached_data.value.items = <<>> THEN w0
        ELSE IF cached_data.value.kind # "list" THEN w0
        ELSE
            LET items == cached_data.value.items
                valid == IF \A i \in DOMAIN items : IsValidRecord(items[i])
                         THEN items ELSE <<>>
                valid_positions == [i \in DOMAIN valid |-> model_validate(valid[i], w.now)]
                w1 == [w0 EXCEPT !.active = valid_positions]
            IN  IF valid_positions # <<>> THEN check_closed_positions(w1, in) ELSE w1

\* load_positions: nothing to do for a missing, unparseable, empty or non-list
\* cache; otherwise keep the records model_validate accepts, then reconcile
\* load_positions without the reconciliation of the loaded set
load_positions_unreconciled(w, in) ==
    LET cached_data == CacheLoad(w.file)
        w0 == [w EXCEPT !.t.lazy_load = TRUE]
    IN  IF cached_data.none \/ cached_data.value.items = <<>> THEN w0
        ELSE IF cached_data.value.kind # "list" THEN w0
        ELSE
            LET valid == SelectSeq(cached_data.value.items, IsValidRecord)
                valid_positions == [i \in DOMAIN valid |-> model_validate(valid[i], w.now)]
            IN  [w0 EXCEPT !.active = valid_positions]

load_positions(w, in) ==
    LET cached_data == CacheLoad(w.file)
        w0 == [w EXCEPT !.t.lazy_load = TRUE]
    IN  IF cached_data.none \/ cached_data.value.items = <<>> THEN w0
        ELSE IF cached_data.value.kind # "list" THEN w0
        ELSE
            LET valid == SelectSeq(cached_data.value.items, IsValidRecord)
                valid_positions == [i \in DOMAIN valid |-> model_validate(valid[i], w.now)]
                w1 == [w0 EXCEPT !.active = valid_positions]
            IN  IF valid_positions # <<>> THEN check_closed_positions(w1, in) ELSE w1

\* ServiceRegistry.position_manager: the first access builds the manager and
\* loads the cache
position_manager(w, loaded, in) == IF loaded THEN w ELSE load_positions(w, in)

\* (mutant) a position one of whose cancels raised stays tracked
cleanup_position_keeps_on_failure(w, position, in) ==
    LET w1 == cancel_each(w, position.orders, in.errs)
        failed == OrderIds(position) \cap in.errs # {}
        kept == IF failed THEN w.active
                ELSE SelectSeq(w.active,
                               LAMBDA p : p.main_order_id # position.main_order_id)
        removed == Len(w.active) > Len(kept)
        w2 == [w1 EXCEPT !.active = kept,
                         !.t.target = <<position>>,
                         !.t.success = ~failed]
    IN  IF removed THEN save_positions(w2, in.save) ELSE w2

\* (mutant) the cancel of an order that is no longer open counts as a failure
cleanup_position_unknown_fails(w, position, in) ==
    LET w1 == cancel_each(w, position.orders, in.errs)
        kept == SelectSeq(w.active,
                          LAMBDA p : p.main_order_id # position.main_order_id)
        removed == Len(w.active) > Len(kept)
        w2 == [w1 EXCEPT !.active = kept,
                         !.t.target = <<position>>,
                         !.t.success = /\ OrderIds(position) \cap in.errs = {}
                                       /\ OrderIds(position) \subseteq w.orders]
    IN  IF removed THEN save_positions(w2, in.save) ELSE w2

\* (mutant) the cache is rewritten whether or not a position was dropped
cleanup_position_always_saves(w, position, in) ==
    LET w1 == cancel_each(w, position.orders, in.errs)
        kept == SelectSeq(w.active,
                          LAMBDA p : p.main_order_id # position.main_order_id)
        w2 == [w1 EXCEPT !.active = kept,
                         !.t.target = <<position>>,
                         !.t.success = (OrderIds(position) \cap in.errs = {})]
    IN  save_positions(w2, in.save)

\* cleanup_position: cancel the orders of the given position, drop every
\* tracked position with its main_order_id, save if one was dropped; the result
\* is False as soon as one cancel raised
cleanup_position(w, position, in) ==
    LET w1 == cancel_each(w, position.orders, in.errs)
        kept == SelectSeq(w.active,
                          LAMBDA p : p.main_order_id # position.main_order_id)
        removed == Len(w.active) > Len(kept)
        w2 == [w1 EXCEPT !.active = kept,
                         !.t.target = <<position>>,
                         !.t.success = (OrderIds(position) \cap in.errs = {})]
    IN  IF removed THEN save_positions(w2, in.save) ELSE w2

\* _cleanup_all_positions: fetch the open orders of the pair and cancel every
\* one of them, each cancel in its own try / except; a failed fetch is logged
\* and skips the cancels.  Then, in every case, empty the active set and save.
cleanup_all_positions(w, in) ==
    LET w1 == IF in.fetch # "ok" THEN [w EXCEPT !.t.fetch = in.fetch]
              ELSE [w EXCEPT !.t.fetch = "ok",
                             !.t.open_order_ids = w.orders,
                             !.t.cancels = w.orders,
                             !.t.cancel_failed = w.orders \cap in.errs,
                             !.orders = @ \cap in.errs]
    IN  save_positions([w1 EXCEPT !.active = <<>>], in.save)

\* the loop of TradingExecutor.cleanup_all_positions over the copied list;
\* in.saves gives the outcome of the cache write of each cleanup_position
RECURSIVE cleanup_each_position(_, _, _)
cleanup_each_position(w, positions, in) ==
    IF positions = <<>> THEN w
    ELSE
        LET position == Head(positions)
        IN  cleanup_each_position(
                cleanup_position(w, position,
                                 [fetch |-> "ok", errs |-> in.errs,
                                  save |-> in.saves[position.main_order_id]]),
                Tail(positions), in)

\* TradingExecutor.cleanup_all_positions: cleanup_position for every position
\* of a copy of the active set
executor_cleanup_all_positions(w, in) == cleanup_each_position(w, w.active, in)

\* ------------------------------------------------------------ OrderManager
\* (mutant) a failed market order is reported as placed
client_place_market_order_swallowed(w, side, quantity, stream) ==
    LET r == retry(stream)
        request == [type |-> "MARKET", side |-> side, quantity |-> quantity,
                    reduceOnly |-> FALSE]
        w1 == [w EXCEPT !.t.market_sub = r.calls,
                        !.t.requests = @ \o [i \in 1..r.calls |-> request],
                        !.t.market_failed = ~r.ok,
                        !.t.market_placed = r.accepted,
                        !.next = w.next + 3,
                        !.amt = IF side = "BUY" THEN w.amt + r.accepted * quantity
                                ELSE w.amt - r.accepted * quantity]
    IN  [ok |-> TRUE, id |-> w.next, w |-> w1]

\* Order ids are opaque and the exchange serves other accounts as well: the
\* order a market request returns gets the id next, the brackets that follow it
\* next + 1 and next + 2, and the counter has moved past them by then.
\* client.place_market_order under @retry: every accepted request is an order
\* of its own that fills at once and moves the position amount by the
\* quantity; the caller gets the order of the request whose response arrived
client_place_market_order(w, side, quantity, stream) ==
    LET r == retry(stream)
        request == [type |-> "MARKET", side |-> side, quantity |-> quantity,
                    reduceOnly |-> FALSE]
        w1 == [w EXCEPT !.t.market_sub = r.calls,
                        !.t.requests = @ \o [i \in 1..r.calls |-> request],
                        !.t.market_failed = ~r.ok,
                        !.t.exception = IF r.ok THEN "" ELSE str(stream[r.calls]),
                        !.t.market_placed = r.accepted,
                        !.next = IF r.ok THEN w.next + 3 ELSE w.next,
                        !.amt = IF side = "BUY" THEN w.amt + r.accepted * quantity
                                ELSE w.amt - r.accepted * quantity]
    IN  [ok |-> r.ok, id |-> w.next, w |-> w1]

\* client.place_stop_loss_order / place_take_profit_order under @retry: on
\* success the bracket order is open on the exchange under the given id
\* (lost responses are drawn for market requests only)
client_place_bracket_order(w, kind, side, quantity, id, stream) ==
    LET r == retry(stream)
        request == [type |-> IF kind = "stop_loss" THEN "STOP_MARKET"
                             ELSE "TAKE_PROFIT_MARKET",
                    side |-> side, quantity |-> quantity, reduceOnly |-> TRUE]
        w1 == [w EXCEPT !.orders = IF r.ok THEN w.orders \cup {id} ELSE w.orders,
                        !.t.requests = @ \o [i \in 1..r.calls |-> request]]
        w2 == IF kind = "stop_loss"
              THEN [w1 EXCEPT !.t.sl_sub = r.calls,
                              !.t.sl_placed = IF r.ok THEN 1 ELSE 0]
              ELSE [w1 EXCEPT !.t.tp_sub = r.calls,
                              !.t.tp_placed = IF r.ok THEN 1 ELSE 0]
    IN  [ok |-> r.ok, id |-> id, w |-> w2]

\* (mutant) the brackets are sent on the side of the market order
close_side_same(side) == side

\* close_side = SIDE_SELL if side == SIDE_BUY else SIDE_BUY
close_side(side) == IF side = "BUY" THEN "SELL" ELSE "BUY"

\* (mutant) the brackets are placed but their refs are not recorded
place_market_order_no_refs(w, side, quantity, in) ==
    LET m == client_place_market_order(w, side, quantity, in.market)
    IN  IF ~m.ok THEN m.w
        ELSE
            LET position == [main_order_id |-> m.id, entry_price |-> in.price,
                             side |-> side, quantity |-> quantity,
                             orders |-> <<>>, timestamp |-> m.w.now]
                wm == [m.w EXCEPT !.now = m.w.now + 1]
                sl == client_place_bracket_order(wm, "stop_loss", close_side(side), quantity,
                                                 m.id + 1, in.sl)
                tp == client_place_bracket_order(sl.w, "take_profit", close_side(side), quantity,
                                                 m.id + 2, in.tp)
            IN  [tp.w EXCEPT !.t.position = <<position>>]

\* (mutant) the take profit is recorded as a second stop loss
place_market_order_two_stops(w, side, quantity, in) ==
    LET m == client_place_market_order(w, side, quantity, in.market)
    IN  IF ~m.ok THEN m.w
        ELSE
            LET position == [main_order_id |-> m.id, entry_price |-> in.price,
                             side |-> side, quantity |-> quantity,
                             orders |-> <<>>, timestamp |-> m.w.now]
                wm == [m.w EXCEPT !.now = m.w.now + 1]
                sl == client_place_bracket_order(wm, "stop_loss", close_side(side), quantity,
                                                 m.id + 1, in.sl)
                p1 == IF sl.ok
                      THEN [position EXCEPT !.orders =
                               Append(@, [type |-> "stop_loss", id |-> sl.id])]
                      ELSE position
                tp == client_place_bracket_order(sl.w, "take_profit", close_side(side), quantity,
                                                 m.id + 2, in.tp)
                p2 == IF tp.ok
                      THEN [p1 EXCEPT !.orders =
                               Append(@, [type |-> "stop_loss", id |-> tp.id])]
                      ELSE p1
            IN  [tp.w EXCEPT !.t.position = <<p2>>]

\* (mutant) a failed stop loss is not caught: it ends the operation with None
place_market_order_sl_aborts(w, side, quantity, in) ==
    LET m == client_place_market_order(w, side, quantity, in.market)
    IN  IF ~m.ok THEN m.w
        ELSE
            LET position == [main_order_id |-> m.id, entry_price |-> in.price,
                             side |-> side, quantity |-> quantity,
                             orders |-> <<>>, timestamp |-> m.w.now]
                wm == [m.w EXCEPT !.now = m.w.now + 1]
                sl == client_place_bracket_order(wm, "stop_loss", close_side(side), quantity,
                                                 m.id + 1, in.sl)
                p1 == [position EXCEPT !.orders =
                          Append(@, [type |-> "stop_loss", id |-> sl.id])]
                tp == client_place_bracket_order(sl.w, "take_profit", close_side(side), quantity,
                                                 m.id + 2, in.tp)
                p2 == IF tp.ok
                      THEN [p1 EXCEPT !.orders =
                               Append(@, [type |-> "take_profit", id |-> tp.id])]
                      ELSE p1
            IN  IF ~sl.ok THEN sl.w ELSE [tp.w EXCEPT !.t.position = <<p2>>]

\* OrderManager.place_market_order: the market order, then the Position with
\* no orders, then the stop loss and the take profit, each appended when its
\* submission succeeded.  A failed market order is caught and None is returned.
\* (mutant) the order manager records the position it built by itself
place_market_order_persists(w, side, quantity, in) ==
    LET m == client_place_market_order(w, side, quantity, in.market)
    IN  IF ~m.ok THEN m.w
        ELSE
            LET position == [main_order_id |-> m.id, entry_price |-> in.price,
                             side |-> side, quantity |-> quantity,
                             orders |-> <<>>, timestamp |-> m.w.now]
                wm == [m.w EXCEPT !.now = m.w.now + 1]
                sl == client_place_bracket_order(wm, "stop_loss", close_side(side), quantity,
                                                 m.id + 1, in.sl)
                p1 == IF sl.ok
                      THEN [position EXCEPT !.orders =
                               Append(@, [type |-> "stop_loss", id |-> sl.id])]
                      ELSE position
                tp == client_place_bracket_order(sl.w, "take_profit", close_side(side), quantity,
                                                 m.id + 2, in.tp)
                p2 == IF tp.ok
                      THEN [p1 EXCEPT !.orders =
                               Append(@, [type |-> "take_profit", id |-> tp.id])]
                      ELSE p1
            IN  [add_position(tp.w, p2, in.save) EXCEPT !.t.position = <<p2>>]

place_market_order(w, side, quantity, in) ==
    LET m == client_place_market_order(w, side, quantity, in.market)
    IN  IF ~m.ok THEN m.w
        ELSE
            LET position == [main_order_id |-> m.id, entry_price |-> in.price,
                             side |-> side, quantity |-> quantity,
                             orders |-> <<>>, timestamp |-> m.w.now]
                wm == [m.w EXCEPT !.now = m.w.now + 1]
                sl == client_place_bracket_order(wm, "stop_loss", close_side(side), quantity,
                                                 m.id + 1, in.sl)
                p1 == IF sl.ok
                      THEN [position EXCEPT !.orders =
                               Append(@, [type |-> "stop_loss", id |-> sl.id])]
                      ELSE position
                tp == client_place_bracket_order(sl.w, "take_profit", close_side(side), quantity,
                                                 m.id + 2, in.tp)
                p2 == IF tp.ok
                      THEN [p1 EXCEPT !.orders =
                               Append(@, [type |-> "take_profit", id |-> tp.id])]
                      ELSE p1
            IN  [tp.w EXCEPT !.t.position = <<p2>>]

\* --------------------------------------------------- stop and take profit
\* Prices are counted in tenths (65000.0 is 650000) and percentages in
\* hundredths of a percent (0.05 % is 5), so that the arithmetic is exact.
HundredPercent == 100 * 100

\* round(x, 1) for x = whole + num / den tenths (num of either sign): the
\* nearest tenth; when x lies half way between two tenths the double that
\* stands for x is a little above or below it, and either neighbour can
\* come out
round(whole, num, den) ==
    LET q == num \div den
        r == num % den
    IN  IF 2 * r < den THEN {whole + q}
        ELSE IF 2 * r > den THEN {whole + q + 1}
        ELSE {whole + q, whole + q + 1}

\* (mutant) the levels of a LONG, whatever the side
calculate_sl_tp_levels_long_only(side, entry_price, s, t) ==
    round(entry_price, 0 - entry_price * s, HundredPercent)
        \X round(entry_price, entry_price * t, HundredPercent)

\* OrderManager._calculate_sl_tp_levels with stop_loss_percentage s and
\* take_profit_percentage t: the pairs <<sl_price, tp_price>> it can return;
\* entry_price * (1 - s / 100) is entry_price - entry_price * s / 100
calculate_sl_tp_levels(side, entry_price, s, t) ==
    IF side = "BUY"
    THEN round(entry_price, 0 - entry_price * s, HundredPercent)
             \X round(entry_price, entry_price * t, HundredPercent)
    ELSE round(entry_price, entry_price * s, HundredPercent)
             \X round(entry_price, 0 - entry_price * t, HundredPercent)

\* --------------------------------------------------------- TradingExecutor
\* (mutant) the order is placed before the limit is looked at
execute_trade_order_first(w, side, limit, in) ==
    LET w0 == [w EXCEPT !.t.seen_count = get_position_count(w)]
        w1 == place_market_order(w0, side, position_size, in)
    IN  IF has_reached_position_limit(w0, limit)
        THEN [w1 EXCEPT !.t.success = FALSE,
                        !.t.error = "Maximum position limit reached"]
        ELSE IF w1.t.position # <<>>
        THEN [add_position(w1, w1.t.position[1], in.save) EXCEPT !.t.success = TRUE]
        ELSE [w1 EXCEPT !.t.success = FALSE,
                        !.t.error = IF side = "BUY"
                                    THEN "Failed to open long position"
                                    ELSE "Failed to open short position"]

\* execute_long_trade / execute_short_trade (side BUY / SELL)
execute_trade(w, side, limit, in) ==
    LET w0 == [w EXCEPT !.t.seen_count = get_position_count(w)]
    IN  IF has_reached_position_limit(w0, limit)
        THEN [w0 EXCEPT !.t.success = FALSE,
                        !.t.error = "Maximum position limit reached"]
        ELSE
            LET w1 == place_market_order(w0, side, position_size, in)
            IN  IF w1.t.position # <<>>
                THEN [add_position(w1, w1.t.position[1], in.save) EXCEPT
                         !.t.success = TRUE]
                ELSE [w1 EXCEPT !.t.success = FALSE,
                                !.t.error = IF side = "BUY"
                                            THEN "Failed to open long position"
                                            ELSE "Failed to open short position"]

\* --------------------------------------------------- the BiBot of main.py
\* The bot of main.py keeps its positions as dicts, without a timestamp, and
\* talks to the exchange without the retry decorator.  Its run() loop is
\* followed one statement at a time.  Time passes in time.sleep only and is
\* kept as what the loop compares: the seconds since last_check_time, and
\* whether min_trade_interval seconds have passed since last_trade_time (0
\* while they have not; which of the short sleeps completes the interval is
\* left open).
check_positions_interval == 30

min_trade_interval == 60

sleep_at_limit == 10

sleep_after_iteration == 1

sleep_after_error == 60

Min(a, b) == IF a < b THEN a ELSE b

NoBot ==
    [pc |-> "none",
     since_check |-> 0,         \* time.time() - last_check_time, up to interval + 1
     since_trade |-> 0,         \* time.time() - last_trade_time: 0 or the interval
     reconciled |-> FALSE,      \* check_closed_positions returned in this iteration
     seen_count |-> -1,         \* len(active_positions) the limit check read
     raised |-> "",             \* what raised the exception of this iteration
     order |-> "",              \* "placed" / "none": what place_order returned
     side |-> "",               \* the side place_order was called with
     info |-> <<>>,             \* <<position_info>> while place_order builds it
     signal |-> "none"]         \* "exited" once the handler's sys.exit ended run()

\* the bot after BiBot() with no cache file: last_check_time = 0 and
\* last_trade_time = 0 lie further back than any interval
NewBot ==
    [NoBot EXCEPT !.pc = "top", !.since_check = check_positions_interval + 1,
                  !.since_trade = min_trade_interval]

\* time.sleep(n): the bots the process can wake up as
sleep(b, n) ==
    {[b EXCEPT !.since_check = Min(@ + n, check_positions_interval + 1),
               !.since_trade = t] :
        t \in IF n >= min_trade_interval THEN {min_trade_interval}
              ELSE {b.since_trade, min_trade_interval}}

\* current_time - last_check_time > check_positions_interval
is_check_due(b) == b.since_check > check_positions_interval

\* (mutant) the exception leaves the loop
handle_exception_reraises(b) == {[b EXCEPT !.pc = "exited"]}

\* except Exception as e: log, time.sleep(60), and round the loop again
handle_exception(b) == {[a EXCEPT !.pc = "top"] : a \in sleep(b, sleep_after_error)}

\* BiBot.check_closed_positions: for every tracked position the position
\* information is fetched (in.fail_at = i: the fetch for the i-th raises, and
\* the exception leaves the method); a position is closed when the amount of
\* the pair is zero; the orders of a closed position are cancelled, whatever
\* a cancel raises is swallowed (in.errs: the cancels that fail); the closed
\* positions are popped and the cache is saved if there were any
bibot_check_closed_positions(w, in) ==
    LET n == Len(w.active)
        done == IF in.fail_at = 0 THEN n ELSE in.fail_at - 1
        closed == w.amt = 0
        cancelled == IF closed
                     THEN UNION {OrderIds(w.active[i]) : i \in 1..done} \ in.errs
                     ELSE {}
        w1 == [w EXCEPT !.orders = @ \ cancelled]
    IN  IF in.fail_at # 0 THEN [raised |-> TRUE, w |-> w1]
        ELSE IF closed /\ n > 0
        THEN [raised |-> FALSE,
              w |-> [w1 EXCEPT !.active = <<>>,
                               !.file = CacheSave(w.file, <<>>, in.save)]]
        ELSE [raised |-> FALSE, w |-> w1]

\* the answers a pass of BiBot.check_closed_positions can be given
BotReconInputs(w) ==
    {[fail_at |-> f, errs |-> e, save |-> s] :
        f \in 0..Len(w.active),
        e \in SUBSET (IF w.amt = 0
                      THEN UNION {OrderIds(w.active[i]) : i \in DOMAIN w.active}
                      ELSE {}),
        s \in SaveOutcomes}

\* what check_entry_conditions returns: long and short exclude each other
\* (the RSI is below RSI_OVERSOLD or above RSI_OVERBOUGHT, not both)
Conditions ==
    {[long |-> FALSE, short |-> FALSE], [long |-> TRUE, short |-> FALSE],
     [long |-> FALSE, short |-> TRUE]}

\* what one futures_create_order of place_order comes to: accepted; accepted
\* with the response lost; refused
OrderAnswers == {"ok", "lost", "error"}

\* signal_handler: bot._save_positions_to_cache(), then sys.exit(0)
signal_handler(file, active, outcome) == CacheSave(file, active, outcome)

\* ------------------------------------------- calls running side by side
\* the callers of execute_long_trade / execute_short_trade on one executor
Threads == {1, 2}

NoThread ==
    [pc |-> "none", side |-> "", seen_count |-> -1, position |-> <<>>,
     success |-> FALSE, error |-> ""]

NoThreads == [t \in Threads |-> NoThread]

\* what the strategy and the risk node hand to the executor node
Signals == [long : BOOLEAN, short : BOOLEAN, favorable_trade : BOOLEAN]

\* ExecutorModule.__call__ once risk_assessment and trading_signals are there:
\* check_position_limit, the test for no signal, the test of the risk
\* assessment, then if long ... elif short ...
executor_module(w, sig, limit, in) ==
    LET w0 == [w EXCEPT !.t.signals = <<sig>>,
                        !.t.seen_count = get_position_count(w)]
    IN  IF has_reached_position_limit(w0, limit)
        THEN [w0 EXCEPT !.t.error = "Maximum position limit reached"]
        ELSE IF ~sig.long /\ ~sig.short
        THEN [w0 EXCEPT !.t.error = "No active trading signals"]
        ELSE IF ~sig.favorable_trade
        THEN [w0 EXCEPT !.t.error = "Trade not favorable based on risk assessment"]
        ELSE IF sig.long
        THEN [execute_trade(w0, "BUY", limit, in) EXCEPT !.t.signals = <<sig>>]
        ELSE IF sig.short
        THEN [execute_trade(w0, "SELL", limit, in) EXCEPT !.t.signals = <<sig>>]
        ELSE w0

\* ------------------------------------------------------ the agent workflow
\* What follows 'Assessment:' in the answer of the LLM: the two words asked
\* for, one of them in lower case, another word, no such line at all ("none"),
\* or llm.invoke raising ("raise")
LlmResponses == {"FAVORABLE", "NOT_FAVORABLE", "favorable", "UNCLEAR", "none", "raise"}

\* state.trading_signals as the strategy selector left it: {} or the two flags
TradingSignals == {<<>>} \cup [long : BOOLEAN, short : BOOLEAN]

\* d.get(key, default)
get(d, key, default) == IF key \in DOMAIN d THEN d[key] ELSE default

\* assessment_match.group(1).upper()
upper(text) == IF text = "favorable" THEN "FAVORABLE" ELSE text

\* RiskAnalyzerModule.__call__: the dict it writes to state.risk_assessment
risk_analyzer(market_data, trading_signals, response) ==
    IF ~market_data THEN [level |-> "unknown", assessment |-> "NOT_FAVORABLE"]
    ELSE IF DOMAIN trading_signals = {}
    THEN [level |-> "none", assessment |-> "NOT_FAVORABLE"]
    ELSE IF ~(get(trading_signals, "long", FALSE) \/ get(trading_signals, "short", FALSE))
    THEN [level |-> "none", assessment |-> "NOT_FAVORABLE"]
    ELSE IF response = "raise" THEN [level |-> "unknown", assessment |-> "NOT_FAVORABLE"]
    ELSE
        LET assessment == IF response = "none" THEN "NOT_FAVORABLE" ELSE upper(response)
        IN  [level |-> "low",
             assessment |-> IF assessment \notin {"FAVORABLE", "NOT_FAVORABLE"}
                            THEN "NOT_FAVORABLE" ELSE assessment]

\* TradingAgent._risk_router
risk_router(risk_assessment) ==
    IF get(risk_assessment, "assessment", "NOT_FAVORABLE") = "FAVORABLE"
    THEN "executor" ELSE "END"

\* workflow.invoke from the risk analyzer on: the risk analyzer, the router
\* and, when routed there, the executor node, whose check_position_limit is
\* the first thing to touch the position manager
workflow(w, loaded, li, market_data, trading_signals, response, limit, in) ==
    LET risk_assessment == risk_analyzer(market_data, trading_signals, response)
        route == risk_router(risk_assessment)
        w0 == [w EXCEPT !.t.risk_assessment = <<risk_assessment>>, !.t.route = route]
    IN  IF route # "executor" THEN w0
        ELSE IF DOMAIN trading_signals = {}
        THEN [w0 EXCEPT !.t.error = "Missing required data"]
        ELSE executor_module(position_manager(w0, loaded, li),
                             [long |-> get(trading_signals, "long", FALSE),
                              short |-> get(trading_signals, "short", FALSE),
                              favorable_trade |->
                                  get(risk_assessment, "favorable_trade", FALSE)],
                             limit, in)

\* the public methods class BinanceClient defines
ClientMethods ==
    {"ping", "get_klines", "place_market_order", "place_stop_loss_order",
     "place_take_profit_order", "get_positions", "get_open_orders",
     "cancel_order", "change_leverage"}

\* (mutant) the balance call succeeds and the position manager is read
get_account_info_reads_positions(w, loaded, in) ==
    LET w1 == position_manager(w, loaded, in)
    IN  [w1 EXCEPT !.t.seen_count = get_position_count(w1)]

\* get_account_info: the balance is asked of client.get_account_balance, a
\* method BinanceClient does not have; the AttributeError is caught by the
\* except Exception of the function, which returns {"error": ...} before the
\* position manager is touched
get_account_info(w, loaded, in) ==
    IF "get_account_balance" \notin ClientMethods
    THEN [w EXCEPT !.t.error = "AttributeError"]
    ELSE LET w1 == position_manager(w, loaded, in)
         IN  [w1 EXCEPT !.t.seen_count = get_position_count(w1)]

\* ------------------------------------------------------------------ inputs
\* What the exchange and the disk answer during one reconciliation of w: both
\* fetches succeed and any of the cancels may raise, or one fetch fails.
ReconInputs(w) ==
    LET targets == UNION {OrderIds(p) :
                            p \in {q \in Range(w.active) : is_closed(q, w.orders, w.amt)}}
    IN  {[fetch |-> "ok", errs |-> e, save |-> s] :
            e \in SUBSET targets, s \in SaveOutcomes}
        \cup {[fetch |-> f, errs |-> {}, save |-> "ok"] :
                f \in FetchOutcomes \ {"ok"}}

NoInput == [fetch |-> "ok", errs |-> {}, save |-> "ok"]

\* the answers during the load a first access of the position manager runs
LoadInputs(w, loaded) ==
    IF loaded THEN {NoInput}
    ELSE ReconInputs(load_positions(w, [fetch |-> "orders_failed", errs |-> {},
                                        save |-> "ok"]))

\* The answers a market order request is given in the state machine: accepted
\* at once; accepted with the first response lost; refused max_retries times.
MarketStreams ==
    {Stream(0, "error", "ok"), Stream(1, "lost", "ok"),
     Stream(max_retries, "error", "ok")}

\* The answers a bracket order request is given: accepted at once; refused
\* max_retries times.
BracketStreams == {Stream(0, "error", "ok"), Stream(max_retries, "error", "ok")}

\* the bracket and disk answers only matter once the market order succeeded
TradeInputs ==
    {[market |-> m, sl |-> s, tp |-> t, price |-> pr, save |-> sv] :
        m \in {x \in MarketStreams : retry(x).ok}, s \in BracketStreams,
        t \in BracketStreams, pr \in FillPrices, sv \in SaveOutcomes}
    \cup
    {[market |-> m, sl |-> m, tp |-> m, price |-> pr, save |-> "ok"] :
        m \in {x \in MarketStreams : ~retry(x).ok}, pr \in FillPrices}

\* the market order of a trade is refused
RefusedInputs == {in \in TradeInputs : ~retry(in.market).ok}

\* how many failures an input answers with
StreamFaults(stream) == IF stream[1] = "ok" THEN 0 ELSE 1

SaveFaults(outcome) == IF outcome = "ok" THEN 0 ELSE 1

ReconFaults(in) ==
    Cardinality(in.errs) + SaveFaults(in.save) + (IF in.fetch = "ok" THEN 0 ELSE 1)

TradeFaults(in) ==
    IF retry(in.market).ok
    THEN StreamFaults(in.market) + StreamFaults(in.sl) + StreamFaults(in.tp)
         + SaveFaults(in.save)
    ELSE 1

\* the reconciliation inputs of set S the fault budget still allows
Allowed(S) == {in \in S : faults + ReconFaults(in) <= MaxFaults}

\* ----------------------------------------------------------------- actions
Commit(w, op, cost) ==
    /\ active_positions' = w.active
    /\ cache_file' = w.file
    /\ open_orders' = w.orders
    /\ position_amt' = w.amt
    /\ next_order_id' = w.next
    /\ now' = w.now
    /\ faults' = faults + cost
    /\ last' = [op |-> op, t |-> w.t]
    /\ UNCHANGED <<max_positions, call, bot, threads, save>>

Init ==
    /\ max_positions \in 1..MaxMaxPositions
    /\ pm_loaded = FALSE
    /\ active_positions = <<>>
    /\ cache_file = Absent
    /\ open_orders = {}
    /\ position_amt = 0
    /\ next_order_id = 1
    /\ now = 0
    /\ faults = 0
    /\ last = [op |-> "init", t |-> NoTrace]
    /\ call = NoCall
    /\ bot = NoBot
    /\ threads = NoThreads
    /\ save = NoSave

\* first access of ServiceRegistry.position_manager outside a trade
GetPositionManager ==
    /\ ~pm_loaded
    /\ \E li \in Allowed(LoadInputs(World, FALSE)) :
          Commit(position_manager(World, FALSE, li), "position_manager",
                 ReconFaults(li))
    /\ pm_loaded' = TRUE

\* execute_long_trade / execute_short_trade; the exchange accepts the market
\* orders of MaxOpened calls and refuses those of the calls after them
ExecuteTrade(side) ==
    /\ \E li \in Allowed(LoadInputs(World, pm_loaded)) :
          \/ /\ now < MaxOpened
             /\ \E in \in TradeInputs :
                   /\ faults + ReconFaults(li) + TradeFaults(in) <= MaxFaults
                   /\ Commit(execute_trade(position_manager(World, pm_loaded, li),
                                           side, max_positions, in),
                             "execute_trade", ReconFaults(li) + TradeFaults(in))
          \/ /\ now >= MaxOpened
             /\ \E in \in RefusedInputs :
                   Commit(execute_trade(position_manager(World, pm_loaded, li),
                                        side, max_positions, in),
                          "execute_trade", ReconFaults(li))
    /\ pm_loaded' = TRUE

ExecuteLongTrade == ExecuteTrade("BUY")

\* the answers a trade of the executor node is given: every request is
\* accepted at once and the cache is written, or the market order is refused
ModuleTradeInputs == {in \in TradeInputs : TradeFaults(in) = 0 \/ ~retry(in.market).ok}

\* one run of the executor node of the agent, for any signals
ExecutorModule ==
    /\ \E li \in Allowed(LoadInputs(World, pm_loaded)) :
          \E sig \in Signals :
             \E in \in IF now < MaxOpened THEN ModuleTradeInputs ELSE RefusedInputs :
                \E w \in {executor_module(position_manager(World, pm_loaded, li),
                                          sig, max_positions, in)} :
                   LET cost == ReconFaults(li)
                                 + (IF w.t.market_sub > 0 /\ now < MaxOpened
                                    THEN TradeFaults(in) ELSE 0)
                   IN  /\ faults + cost <= MaxFaults
                       /\ Commit(w, "executor_module", cost)
    /\ pm_loaded' = TRUE

ExecuteShortTrade == ExecuteTrade("SELL")

CheckClosedPositions ==
    /\ pm_loaded
    /\ \E in \in Allowed(ReconInputs(World)) :
          Commit(check_closed_positions(World, in), "check_closed_positions",
                 ReconFaults(in))
    /\ UNCHANGED pm_loaded

\* cleanup_position is called with a tracked position, or once more with the
\* Position object of the call before
CleanupTargets ==
    Range(active_positions)
        \cup (IF last.op = "cleanup_position" THEN Range(last.t.target) ELSE {})

CleanupPosition ==
    /\ pm_loaded
    /\ \E p \in CleanupTargets :
          \E in \in Allowed({[fetch |-> "ok", errs |-> e, save |-> s] :
                                e \in SUBSET OrderIds(p), s \in SaveOutcomes}) :
              Commit(cleanup_position(World, p, in), "cleanup_position",
                     ReconFaults(in))
    /\ UNCHANGED pm_loaded

\* get_account_info, at any time; the position manager counts as loaded
\* afterwards if the call reached it
GetAccountInfo ==
    /\ \E li \in Allowed(LoadInputs(World, pm_loaded)) :
          \E w \in {get_account_info(World, pm_loaded, li)} :
             /\ Commit(w, "get_account_info",
                       IF w.t.lazy_load THEN ReconFaults(li) ELSE 0)
             /\ pm_loaded' = (pm_loaded \/ w.t.lazy_load)

\* what the exchange and the disk answer during _cleanup_all_positions
CleanupAllInputs(w) ==
    {[fetch |-> "ok", errs |-> e, save |-> s] :
        e \in SUBSET w.orders, s \in SaveOutcomes}
    \cup {[fetch |-> "orders_failed", errs |-> {}, save |-> s] : s \in SaveOutcomes}

CleanupAllPositions ==
    /\ pm_loaded
    /\ \E in \in Allowed(CleanupAllInputs(World)) :
          Commit(cleanup_all_positions(World, in), "cleanup_all_positions",
                 ReconFaults(in))
    /\ UNCHANGED pm_loaded

\* what the exchange and the disk answer during the cleanups of the positions
\* of w: the cancels that raise, and the outcome of each cache write
ExecutorCleanupInputs(w) ==
    LET ids == {p.main_order_id : p \in Range(w.active)}
    IN  {[errs |-> e, saves |-> sv] :
            e \in SUBSET (UNION {OrderIds(p) : p \in Range(w.active)}),
            sv \in [ids -> SaveOutcomes]}

ExecutorCleanupFaults(in) ==
    Cardinality(in.errs)
        + Cardinality({id \in DOMAIN in.saves : in.saves[id] # "ok"})

\* TradingExecutor.cleanup_all_positions; the first access of the position
\* manager loads the cache
ExecutorCleanupAllPositions ==
    /\ \E li \in Allowed(LoadInputs(World, pm_loaded)) :
          LET w == position_manager(World, pm_loaded, li)
          IN  \E in \in ExecutorCleanupInputs(w) :
                 /\ faults + ReconFaults(li) + ExecutorCleanupFaults(in) <= MaxFaults
                 /\ Commit(executor_cleanup_all_positions(w, in),
                           "executor_cleanup_all_positions",
                           ReconFaults(li) + ExecutorCleanupFaults(in))
    /\ pm_loaded' = TRUE

\* the process ends and is started again: memory is lost, the file stays
Restart ==
    /\ pm_loaded
    /\ pm_loaded' = FALSE
    /\ active_positions' = <<>>
    /\ last' = [op |-> "restart", t |-> NoTrace]
    /\ UNCHANGED <<max_positions, call, bot, threads, save, cache_file, open_orders, position_amt,
                   next_order_id, now, faults>>

\* exchange: an open order triggers (reduceOnly: the position amount moves
\* towards zero, or the order expires) or is cancelled by hand
ExchangeOrderGone ==
    /\ \E o \in open_orders :
          /\ open_orders' = open_orders \ {o}
          /\ \/ UNCHANGED position_amt
             \/ /\ position_amt # 0
                /\ position_amt' = IF position_amt > 0 THEN position_amt - position_size
                                   ELSE position_amt + position_size
    /\ last' = [op |-> "exchange", t |-> NoTrace]
    /\ UNCHANGED <<max_positions, call, bot, threads, save, pm_loaded, active_positions, cache_file,
                   next_order_id, now, faults>>

\* exchange: the position of the pair is closed (by hand, or liquidated)
ExchangePositionClosed ==
    /\ position_amt # 0
    /\ position_amt' = 0
    /\ last' = [op |-> "exchange", t |-> NoTrace]
    /\ UNCHANGED <<max_positions, call, bot, threads, save, pm_loaded, active_positions, cache_file,
                   open_orders, next_order_id, now, faults>>

Next ==
    \/ GetPositionManager
    \/ ExecuteLongTrade
    \/ ExecuteShortTrade
    \/ CheckClosedPositions
    \/ CleanupPosition
    \/ CleanupAllPositions
    \/ ExecutorCleanupAllPositions
    \/ Restart
    \/ ExchangeOrderGone
    \/ ExchangePositionClosed

Spec == Init /\ [][Next]_vars

\* -------------------------------------------------- the agent's executor node
\* The program driven by the trading agent alone: every operation is a run of
\* the executor node or a query of the account through its execution tool,
\* between restarts and moves of the exchange.
AgentNext ==
    \/ ExecutorModule
    \/ GetAccountInfo
    \/ Restart
    \/ ExchangeOrderGone
    \/ ExchangePositionClosed

AgentSpec == Init /\ [][AgentNext]_vars

\* ----------------------------------------------- the run() loop of main.py
BotWorld ==
    [active |-> active_positions, file |-> cache_file, orders |-> open_orders,
     amt |-> position_amt]

\* what the bot's process has no hand in
BotFrame == UNCHANGED <<max_positions, pm_loaded, now, faults, last, call, threads, save>>

\* bot = BiBot() has returned, with no cache file to load, and bot.run() starts
BotInit ==
    /\ max_positions = 1
    /\ pm_loaded = FALSE
    /\ active_positions = <<>>
    /\ cache_file = Absent
    /\ open_orders = {}
    /\ position_amt = 0
    /\ next_order_id = 1
    /\ now = 0
    /\ faults = 0
    /\ last = [op |-> "init", t |-> NoTrace]
    /\ call = NoCall
    /\ bot = NewBot
    /\ threads = NoThreads
    /\ save = NoSave

\* while True: try: current_time = time.time(); is a reconciliation due
BotTop ==
    /\ bot.pc = "top"
    /\ bot' = [bot EXCEPT !.pc = IF is_check_due(bot) THEN "check" ELSE "limit",
                          !.reconciled = FALSE, !.seen_count = -1, !.raised = "",
                          !.order = "", !.side = ""]
    /\ UNCHANGED <<active_positions, cache_file, open_orders, position_amt,
                   next_order_id>>
    /\ BotFrame

\* self.check_closed_positions(); last_check_time = current_time
BotCheckClosedPositions ==
    /\ bot.pc = "check"
    /\ \E in \in BotReconInputs(BotWorld) :
          LET r == bibot_check_closed_positions(BotWorld, in)
          IN  /\ active_positions' = r.w.active
              /\ cache_file' = r.w.file
              /\ open_orders' = r.w.orders
              /\ bot' = IF r.raised
                        THEN [bot EXCEPT !.pc = "except", !.raised = "reconciliation"]
                        ELSE [bot EXCEPT !.pc = "limit", !.since_check = 0,
                                         !.reconciled = TRUE]
    /\ UNCHANGED <<position_amt, next_order_id>>
    /\ BotFrame

\* if len(self.active_positions) >= config.MAX_POSITIONS: sleep(10); continue
BotLimit ==
    /\ bot.pc = "limit"
    /\ bot' \in IF Len(active_positions) >= max_positions
                THEN {[b EXCEPT !.pc = "top", !.seen_count = Len(active_positions)] :
                         b \in sleep(bot, sleep_at_limit)}
                ELSE {[bot EXCEPT !.pc = "data", !.seen_count = Len(active_positions)]}
    /\ UNCHANGED <<active_positions, cache_file, open_orders, position_amt,
                   next_order_id>>
    /\ BotFrame

\* time.sleep(1) (with continue, or as the last statement of the try)
end_iteration(b) == {[a EXCEPT !.pc = "top"] : a \in sleep(b, sleep_after_iteration)}

\* get_historical_data, calculate_indicators, check_entry_conditions (each
\* raises what it catches), the minimum trade interval, and the branch on the
\* conditions; with neither condition met the iteration ends in sleep(1)
BotData ==
    /\ bot.pc = "data"
    /\ \/ bot' = [bot EXCEPT !.pc = "except", !.raised = "data"]
       \/ \E c \in Conditions :
             bot' \in IF bot.since_trade < min_trade_interval
                      THEN end_iteration(bot)
                      ELSE IF c.long THEN {[bot EXCEPT !.pc = "market", !.side = "BUY"]}
                      ELSE IF c.short THEN {[bot EXCEPT !.pc = "market", !.side = "SELL"]}
                      ELSE end_iteration(bot)
    /\ UNCHANGED <<active_positions, cache_file, open_orders, position_amt,
                   next_order_id>>
    /\ BotFrame

\* place_order returned None: the loop goes on to sleep(1)
order_failed(b) == end_iteration([b EXCEPT !.order = "none", !.info = <<>>])

\* place_order: the market order.  An accepted order fills at once; when its
\* response is lost or it is refused, the exception is caught and None is
\* returned.  The exchange accepts MaxBotOrders market orders of the bot.
BotPlaceMarket ==
    /\ bot.pc = "market"
    /\ \E a \in (IF next_order_id < 1 + 3 * MaxBotOrders THEN OrderAnswers ELSE {"error"}),
          price \in FillPrices :
          /\ position_amt' = IF a = "error" THEN position_amt
                             ELSE IF bot.side = "BUY" THEN position_amt + position_size
                             ELSE position_amt - position_size
          /\ next_order_id' = IF a = "error" THEN next_order_id ELSE next_order_id + 3
          /\ bot' \in IF a = "ok"
                      THEN {[bot EXCEPT !.pc = "stop_loss",
                                        !.info = <<[main_order_id |-> next_order_id,
                                                    entry_price |-> price,
                                                    side |-> bot.side,
                                                    quantity |-> position_size,
                                                    orders |-> <<>>]>>]}
                      ELSE order_failed(bot)
    /\ UNCHANGED <<active_positions, cache_file, open_orders>>
    /\ BotFrame

\* place_order: a bracket order; when it raises, place_order returns None and
\* the position_info built so far is dropped
BotPlaceBracket(pc, type, id, next) ==
    /\ bot.pc = pc
    /\ \E a \in OrderAnswers :
          /\ open_orders' = IF a = "error" THEN open_orders ELSE open_orders \cup {id}
          /\ bot' \in IF a = "ok"
                      THEN {[bot EXCEPT !.pc = next,
                                        !.info[1].orders =
                                            Append(@, [type |-> type, id |-> id])]}
                      ELSE order_failed(bot)
    /\ UNCHANGED <<active_positions, cache_file, position_amt, next_order_id>>
    /\ BotFrame

BotPlaceStopLoss ==
    /\ bot.info # <<>>
    /\ BotPlaceBracket("stop_loss", "stop_loss", bot.info[1].main_order_id + 1,
                       "take_profit")

BotPlaceTakeProfit ==
    /\ bot.info # <<>>
    /\ BotPlaceBracket("take_profit", "take_profit", bot.info[1].main_order_id + 2,
                       "record")

\* place_order: active_positions.append, _save_positions_to_cache, return;
\* then last_trade_time = current_time and sleep(1)
BotRecord ==
    /\ bot.pc = "record"
    /\ \E s \in SaveOutcomes :
          /\ active_positions' = Append(active_positions, bot.info[1])
          /\ cache_file' = CacheSave(cache_file, active_positions', s)
    /\ bot' \in end_iteration([bot EXCEPT !.order = "placed", !.info = <<>>,
                                          !.since_trade = 0])
    /\ UNCHANGED <<open_orders, position_amt, next_order_id>>
    /\ BotFrame

\* except Exception of run()
BotExcept ==
    /\ bot.pc = "except"
    /\ bot' \in handle_exception(bot)
    /\ UNCHANGED <<active_positions, cache_file, open_orders, position_amt,
                   next_order_id>>
    /\ BotFrame

\* SIGINT or SIGTERM: the handler runs in the main thread wherever run() is,
\* saves the positions and raises SystemExit, which no except Exception catches
BotSignal ==
    /\ bot.pc \notin {"none", "exited"}
    /\ \E s \in SaveOutcomes :
          cache_file' = signal_handler(cache_file, active_positions, s)
    /\ bot' = [bot EXCEPT !.pc = "exited", !.signal = "exited"]
    /\ UNCHANGED <<active_positions, open_orders, position_amt, next_order_id>>
    /\ BotFrame

\* the signal arrives inside the try of a futures_cancel_order of
\* check_closed_positions: the bare except takes the SystemExit for a failed
\* cancel, and the pass goes on
BotSignalSwallowed ==
    /\ bot.pc = "check"
    /\ position_amt = 0
    /\ \E i \in DOMAIN active_positions : OrderIds(active_positions[i]) # {}
    /\ \E s \in SaveOutcomes :
          cache_file' = signal_handler(cache_file, active_positions, s)
    /\ UNCHANGED bot
    /\ UNCHANGED <<active_positions, open_orders, position_amt, next_order_id>>
    /\ BotFrame

\* the statements of run()
BotStep ==
    \/ BotTop
    \/ BotCheckClosedPositions
    \/ BotLimit
    \/ BotData
    \/ BotPlaceMarket
    \/ BotPlaceStopLoss
    \/ BotPlaceTakeProfit
    \/ BotRecord
    \/ BotExcept

BotNext ==
    \/ BotStep
    \/ BotSignal
    \/ BotSignalSwallowed
    \/ ExchangeOrderGone
    \/ ExchangePositionClosed

\* the interpreter keeps executing run() until the process exits
BotSpec == BotInit /\ [][BotNext]_vars /\ WF_vars(BotStep)

\* ------------------------------------ the bracket levels in isolation
\* fill prices, in tenths: 65000.0, 65000.1, 12345.5, 100.0, 300.0, 20.0, 0.3
EntryPrices == {650000, 650001, 123455, 1000, 3000, 200, 3}

\* stop_loss_percentage and take_profit_percentage, in hundredths of a
\* percent: 0.05 (the default stop), 0.1 (the default take profit), 0.25
Percentages == {5, 10, 25}

\* one call of _calculate_sl_tp_levels under some configuration
CalculateSlTpLevels ==
    /\ \E side \in Sides, entry_price \in EntryPrices, s \in Percentages,
          t \in Percentages :
          \E l \in calculate_sl_tp_levels(side, entry_price, s, t) :
             last' = [op |-> "calculate_sl_tp_levels",
                      t |-> [NoTrace EXCEPT !.levels =
                                <<[side |-> side, entry_price |-> entry_price,
                                   stop_loss_percentage |-> s,
                                   take_profit_percentage |-> t,
                                   sl_price |-> l[1], tp_price |-> l[2]]>>]]
    /\ UNCHANGED <<max_positions, pm_loaded, active_positions, cache_file,
                   open_orders, position_amt, next_order_id, now, faults, call,
                   bot, threads, save>>

LevelsSpec == Init /\ [][CalculateSlTpLevels]_vars

\* ------------------------------------- two callers of one TradingExecutor
\* execute_long_trade / execute_short_trade takes no lock and neither does
\* the PositionManager: two calls that run at the same time are interleaved
\* between the limit check, the order placement and add_position.
ThreadFrame == UNCHANGED <<max_positions, pm_loaded, faults, last, call, bot, save>>

\* the position manager has been loaded, with no cache file, and nobody calls
ThreadInit ==
    /\ max_positions \in 1..MaxMaxPositions
    /\ pm_loaded = TRUE
    /\ active_positions = <<>>
    /\ cache_file = Absent
    /\ open_orders = {}
    /\ position_amt = 0
    /\ next_order_id = 1
    /\ now = 0
    /\ faults = 0
    /\ last = [op |-> "init", t |-> NoTrace]
    /\ call = NoCall
    /\ bot = NoBot
    /\ threads = [t \in Threads |-> [NoThread EXCEPT !.pc = "idle"]]
    /\ save = NoSave

\* a caller enters execute_long_trade (BUY) or execute_short_trade (SELL)
ThreadCall(t) ==
    /\ threads[t].pc = "idle"
    /\ \E side \in Sides :
          threads' = [threads EXCEPT ![t] = [NoThread EXCEPT !.pc = "check",
                                                             !.side = side]]
    /\ UNCHANGED <<active_positions, cache_file, open_orders, position_amt,
                   next_order_id, now>>
    /\ ThreadFrame

\* current_positions = pm.get_position_count(); if pm.has_reached_position_limit()
ThreadLimitCheck(t) ==
    /\ threads[t].pc = "check"
    /\ threads' = [threads EXCEPT ![t] =
                      IF has_reached_position_limit(World, max_positions)
                      THEN [@ EXCEPT !.pc = "idle",
                                     !.seen_count = get_position_count(World),
                                     !.error = "Maximum position limit reached"]
                      ELSE [@ EXCEPT !.pc = "place",
                                     !.seen_count = get_position_count(World)]]
    /\ UNCHANGED <<active_positions, cache_file, open_orders, position_amt,
                   next_order_id, now>>
    /\ ThreadFrame

\* position = self.services.order_manager.open_long_position(position_size);
\* the exchange accepts the market orders of MaxOpened calls
ThreadPlaceOrder(t) ==
    /\ threads[t].pc = "place"
    /\ \E in \in (IF now < MaxOpened THEN ModuleTradeInputs ELSE RefusedInputs) :
          LET w == place_market_order(World, threads[t].side, position_size, in)
          IN  /\ open_orders' = w.orders
              /\ position_amt' = w.amt
              /\ next_order_id' = w.next
              /\ now' = w.now
              /\ threads' = [threads EXCEPT ![t] =
                                IF w.t.position # <<>>
                                THEN [@ EXCEPT !.pc = "add", !.position = w.t.position]
                                ELSE [@ EXCEPT !.pc = "idle",
                                               !.error = "Failed to open position"]]
    /\ UNCHANGED <<active_positions, cache_file>>
    /\ ThreadFrame

\* self.services.position_manager.add_position(position); return success
ThreadAddPosition(t) ==
    /\ threads[t].pc = "add"
    /\ \E w \in {add_position(World, threads[t].position[1], "ok")} :
          /\ active_positions' = w.active
          /\ cache_file' = w.file
    /\ threads' = [threads EXCEPT ![t] = [@ EXCEPT !.pc = "idle", !.success = TRUE]]
    /\ UNCHANGED <<open_orders, position_amt, next_order_id, now>>
    /\ ThreadFrame

ThreadNext ==
    \E t \in Threads :
        \/ ThreadCall(t)
        \/ ThreadLimitCheck(t)
        \/ ThreadPlaceOrder(t)
        \/ ThreadAddPosition(t)

ThreadSpec == ThreadInit /\ [][ThreadNext]_vars

\* ------------------------------------------- a start on a cache left behind
\* The process starts on a cache file it did not write in this run: written
\* by an earlier version, by the bot of main.py, or edited by hand.
Without(d, f) == [g \in DOMAIN d \ {f} |-> d[g]]

With(d, f, v) == [g \in DOMAIN d \cup {f} |-> IF g = f THEN v ELSE d[g]]

\* the record of the position opened by market order id, as _save_positions
\* writes it
CachedRecord(id) ==
    [main_order_id |-> id, entry_price |-> 65000, side |-> "BUY",
     quantity |-> position_size,
     orders |-> <<[id |-> id + 1, type |-> "stop_loss"],
                  [id |-> id + 2, type |-> "take_profit"]>>,
     timestamp |-> [iso |-> 0]]

\* that record as written; without its timestamp; with a field Position does
\* not declare; without side; without orders; with a side that is no side
CachedVariants(id) ==
    {CachedRecord(id),
     Without(CachedRecord(id), "timestamp"),
     With(CachedRecord(id), "note", "manual"),
     Without(CachedRecord(id), "side"),
     Without(CachedRecord(id), "orders"),
     With(CachedRecord(id), "side", "HOLD")}

CachedLists ==
    {<<a>> : a \in CachedVariants(1)}
    \cup {<<a, b>> : a \in CachedVariants(1), b \in CachedVariants(4)}

LoadInit ==
    /\ max_positions = MaxMaxPositions
    /\ pm_loaded = FALSE
    /\ active_positions = <<>>
    /\ cache_file \in {JsonList(l) : l \in CachedLists}
    /\ open_orders \in {{}, {2, 3, 5, 6}}
    /\ position_amt \in {0, position_size}
    /\ next_order_id = 7
    /\ now = 1
    /\ faults = 0
    /\ last = [op |-> "init", t |-> NoTrace]
    /\ call = NoCall
    /\ bot = NoBot
    /\ threads = NoThreads
    /\ save = NoSave

LoadNext ==
    \/ GetPositionManager
    \/ Restart
    \/ ExchangeOrderGone
    \/ ExchangePositionClosed

LoadSpec == LoadInit /\ [][LoadNext]_vars

\* ------------------------------------------- one CacheManager.save, step by step
\* the lists of positions a save is called with
SavedLists ==
    {<<>>, <<CachedRecord(1)>>, <<CachedRecord(4)>>,
     <<CachedRecord(1), CachedRecord(4)>>}

\* a process is running, no save is in progress, and the cache file is absent
\* or holds the list an earlier save wrote
SaveInit ==
    /\ max_positions = MaxMaxPositions
    /\ pm_loaded = FALSE
    /\ active_positions = <<>>
    /\ \E items \in SavedLists :
          \/ /\ cache_file = JsonList(items)
             /\ save = [NoSave EXCEPT !.pc = "idle", !.data = items,
                                      !.previous = JsonList(items)]
          \/ /\ items = <<>>
             /\ cache_file = Absent
             /\ save = [NoSave EXCEPT !.pc = "idle"]
    /\ open_orders = {}
    /\ position_amt = 0
    /\ next_order_id = 7
    /\ now = 1
    /\ faults = 0
    /\ last = [op |-> "init", t |-> NoTrace]
    /\ call = NoCall
    /\ bot = NoBot
    /\ threads = NoThreads

SaveFrame ==
    UNCHANGED <<max_positions, pm_loaded, active_positions, open_orders,
                position_amt, next_order_id, now, faults, last, call, bot, threads>>

\* save(data) is entered: open(cache_file, 'w') truncates the file, or raises
\* and save returns False
SaveOpen ==
    /\ save.pc = "idle"
    /\ \E data \in SavedLists :
          /\ JsonList(data) # cache_file
          /\ \/ /\ cache_file' = Partial(<<>>)
                /\ save' = [pc |-> "dump", data |-> data, previous |-> cache_file,
                            returned |-> <<>>, loaded |-> <<>>]
             \/ /\ cache_file' = cache_file
                /\ save' = [pc |-> "idle", data |-> data, previous |-> cache_file,
                            returned |-> <<FALSE>>, loaded |-> <<>>]
    /\ SaveFrame

\* json.dump(data, f) goes on: the text of one more item reaches the file, or
\* the dump raises, the with block closes the file on what was written and
\* save returns False
SaveDump ==
    /\ save.pc = "dump"
    /\ \/ /\ Len(cache_file.items) < Len(save.data)
          /\ cache_file' = Partial(Append(cache_file.items,
                                          save.data[Len(cache_file.items) + 1]))
          /\ save' = save
       \/ /\ cache_file' = cache_file
          /\ save' = [save EXCEPT !.pc = "idle", !.returned = <<FALSE>>]
    /\ SaveFrame

\* json.dump has returned and the with block closes the file: the whole text
\* is on disk and save returns True
SaveClose ==
    /\ save.pc = "dump"
    /\ cache_file' = JsonList(save.data)
    /\ save' = [save EXCEPT !.pc = "idle", !.returned = <<TRUE>>]
    /\ SaveFrame

\* the process is stopped (killed, or the machine goes down) inside save
ProcessStops ==
    /\ save.pc = "dump"
    /\ save' = [save EXCEPT !.pc = "stopped"]
    /\ cache_file' = cache_file
    /\ SaveFrame

\* CacheManager.load() of the same file: at the start of the process that
\* follows a stopped one, or by another process while a save is in progress
CacheManagerLoad ==
    /\ save.loaded # <<load(cache_file)>>
    /\ save' = [save EXCEPT !.loaded = <<load(cache_file)>>,
                            !.pc = IF @ = "stopped" THEN "idle" ELSE @]
    /\ cache_file' = cache_file
    /\ SaveFrame

SaveNext ==
    \/ SaveOpen
    \/ SaveDump
    \/ SaveClose
    \/ ProcessStops
    \/ CacheManagerLoad

SaveSpec == SaveInit /\ [][SaveNext]_vars

\* ------------------------------------------------ runs of the agent workflow
\* one run of the workflow, from the state the first three nodes left; the
\* exchange and the disk are called on only when the executor node is reached,
\* and the answers to an order matter only when the node gets as far as one
Workflow ==
    \E market_data \in BOOLEAN, trading_signals \in TradingSignals,
       response \in LlmResponses :
       IF risk_router(risk_analyzer(market_data, trading_signals, response)) # "executor"
       THEN /\ Commit(workflow(World, pm_loaded, NoInput, market_data, trading_signals,
                               response, max_positions, NoInput),
                      "workflow", 0)
            /\ pm_loaded' = pm_loaded
       ELSE \E li \in Allowed(LoadInputs(World, pm_loaded)) :
               \E in \in IF ~get(risk_analyzer(market_data, trading_signals, response),
                                 "favorable_trade", FALSE)
                          THEN {CHOOSE in \in RefusedInputs : TRUE}
                          ELSE IF now < MaxOpened THEN ModuleTradeInputs
                          ELSE RefusedInputs :
                  \E w \in {workflow(World, pm_loaded, li, market_data, trading_signals,
                                     response, max_positions, in)} :
                     LET cost == ReconFaults(li)
                                   + (IF w.t.market_sub > 0 /\ now < MaxOpened
                                      THEN TradeFaults(in) ELSE 0)
                     IN  /\ faults + cost <= MaxFaults
                         /\ Commit(w, "workflow", cost)
                         /\ pm_loaded' = TRUE

WorkflowNext ==
    \/ Workflow
    \/ Restart
    \/ ExchangeOrderGone
    \/ ExchangePositionClosed

\* the agent starts on the cache file an earlier process wrote, with one or
\* two positions, and on the exchange state that process left
WorkflowInit ==
    /\ LoadInit
    /\ \A i \in DOMAIN cache_file.items :
          cache_file.items[i] \in {CachedRecord(1), CachedRecord(4)}

\* the agent runs its workflow again and again
WorkflowSpec == WorkflowInit /\ [][WorkflowNext]_vars

\* ---------------------------------------------- one client call in isolation
\* the program has just started and one BinanceClient method is called; the
\* exchange will answer its successive requests with any of the streams
RetryInit ==
    /\ max_positions = 1
    /\ pm_loaded = FALSE
    /\ active_positions = <<>>
    /\ cache_file = Absent
    /\ open_orders = {}
    /\ position_amt = 0
    /\ next_order_id = 1
    /\ now = 0
    /\ faults = 0
    /\ last = [op |-> "init", t |-> NoTrace]
    /\ call \in {NewCall(name, stream) :
                    name \in Funcs, stream \in [1..(max_retries + 1) -> Answers]}
    /\ bot = NoBot
    /\ threads = NoThreads
    /\ save = NoSave

ProgramVars ==
    <<max_positions, pm_loaded, active_positions, cache_file, open_orders,
      position_amt, next_order_id, now, faults, last, bot, threads, save>>

\* try: return func(...) / except allowed_exceptions: a non-retriable code is
\* raised again at once, any other allowed exception is kept as last_exception
RetryAttempt ==
    /\ call.pc = "try"
    /\ in_range(call.attempt)
    /\ LET answer == call.stream[call.requests + 1]
           r == func(call.name, answer)
           sent == [call EXCEPT !.requests = @ + 1]
       IN  call' =
              IF ~r.raised
              THEN [sent EXCEPT !.pc = "returned", !.result = <<r.value>>]
              ELSE IF ~is_allowed_exception(r.value) \/ is_non_retriable(r.value)
              THEN [sent EXCEPT !.pc = "raised",
                                !.result = <<[error |-> r.value,
                                             attempt |-> call.attempt]>>]
              ELSE [sent EXCEPT !.pc = "sleep",
                                !.last_exception = <<[error |-> r.value,
                                                     attempt |-> call.attempt]>>]
    /\ UNCHANGED ProgramVars

\* time.sleep(wait_time), then the next round of the loop
RetrySleep ==
    /\ call.pc = "sleep"
    /\ call' = [call EXCEPT !.pc = "try",
                            !.waits = Append(@, wait_time(call.attempt)),
                            !.attempt = @ + 1]
    /\ UNCHANGED ProgramVars

\* after the loop: raise last_exception
RetryExhausted ==
    /\ call.pc = "try"
    /\ ~in_range(call.attempt)
    /\ call' = [call EXCEPT !.pc = "raised", !.result = call.last_exception]
    /\ UNCHANGED ProgramVars

RetryNext == RetryAttempt \/ RetrySleep \/ RetryExhausted

\* the call is not abandoned half way
RetrySpec == RetryInit /\ [][RetryNext]_vars /\ WF_vars(RetryNext)

\* a reconciliation all of whose exchange and disk calls succeed
ReconcileOk ==
    /\ pm_loaded
    /\ \E w \in {check_closed_positions(World, NoInput)} :
          Commit(w, "check_closed_positions", 0)
    /\ UNCHANGED pm_loaded

\* a first access of the position manager all of whose calls succeed
LoadOk ==
    /\ ~pm_loaded
    /\ \E w \in {position_manager(World, FALSE, NoInput)} :
          Commit(w, "position_manager", 0)
    /\ pm_loaded' = TRUE

\* a step in which no exchange or disk call fails
FairNext == Next /\ faults' = faults

\* The program keeps running and its calls succeed: no exchange or disk call
\* fails, a stopped process is started again and loads its positions, and the
\* reconciliation step keeps being run.
FairSpec == Init /\ [][FairNext]_vars /\ WF_vars(LoadOk) /\ WF_vars(ReconcileOk)

\* ------------------------------------------------------------------ claims
\* what the last operation started from
PreLoaded == last.t.pre[1].loaded

PreActive == last.t.pre[1].active

IsTrade == last.op = "execute_trade"

\* the last operation was a reconciliation pass of a running position manager
\* whose two fetches succeeded
IsPass == last.op = "check_closed_positions" /\ last.t.fetch = "ok"

\* the last operation was a trade that went as far as the market order
IsOpen == IsTrade /\ last.t.market_sub > 0

NoOrderSubmitted ==
    /\ last.t.market_sub = 0 /\ last.t.sl_sub = 0 /\ last.t.tp_sub = 0
    /\ last.t.market_placed = 0 /\ last.t.sl_placed = 0 /\ last.t.tp_placed = 0

\* the positions a cache file decodes to
Decoded(file) == [i \in DOMAIN file.items |-> model_validate(file.items[i], now)]

\* C1: whatever trades, reconciliations, cleanups and restarts have happened,
\* active_positions never holds more than max_positions positions.
C1_AdmissionControl == Len(active_positions) <= max_positions

\* a trade has just filled the last of several slots
C1_Witness ==
    /\ IsTrade /\ last.t.success
    /\ max_positions > 1
    /\ Len(active_positions) = max_positions

\* C2: a trade called with get_position_count() >= max_positions returns
\* success false with the error 'Maximum position limit reached' and the
\* count it read, submits no market and no bracket order, cancels nothing,
\* writes no cache and adds no position; with the position manager already
\* built it makes no exchange call at all and the active set is what it was.
C2_LimitReachedRefuses ==
    IsTrade =>
        /\ PreLoaded => last.t.seen_count = Len(PreActive)
        /\ last.t.seen_count >= max_positions =>
              /\ ~last.t.success
              /\ last.t.error = "Maximum position limit reached"
              /\ NoOrderSubmitted
              /\ last.t.position = <<>>
              /\ last.t.cancels = {}
              /\ last.t.saves = <<>>
              /\ Len(active_positions) = last.t.seen_count
              /\ PreLoaded => /\ active_positions = PreActive
                              /\ ~last.t.lazy_load
                              /\ last.t.fetch = "none"

\* a trade was refused at a limit of several positions
C2_Witness ==
    /\ IsTrade /\ PreLoaded
    /\ max_positions > 1
    /\ Len(PreActive) = max_positions
    /\ last.t.error = "Maximum position limit reached"

\* C3: when client.place_market_order fails, no stop loss and no take profit
\* is submitted, no Position is returned, the executor reports the failure to
\* open, no position is added, and (the position manager being built) the
\* active set is what it was and the cache is not written.
C3_MarketFailureAborts ==
    (IsTrade /\ last.t.market_failed) =>
        /\ last.t.sl_sub = 0 /\ last.t.tp_sub = 0
        /\ last.t.sl_placed = 0 /\ last.t.tp_placed = 0
        /\ last.t.position = <<>>
        /\ ~last.t.success
        /\ last.t.error \in {"Failed to open long position",
                              "Failed to open short position"}
        /\ Len(active_positions) = last.t.seen_count
        /\ PreLoaded => /\ active_positions = PreActive
                        /\ last.t.saves = <<>>

\* the market order was refused max_retries times while a position was tracked
C3_Witness ==
    /\ IsTrade /\ last.t.market_failed /\ PreLoaded
    /\ last.t.market_sub = max_retries
    /\ PreActive # <<>>

C5_OneMarketOrderPerCall ==
    IsOpen =>
        /\ last.t.market_placed = (IF last.t.market_failed THEN 0 ELSE 1)
        /\ last.t.sl_placed <= 1
        /\ last.t.tp_placed <= 1

\* C6: in a pass whose fetches succeeded, a tracked position is judged closed,
\* and dropped from the active set, iff (a) the pair has no nonzero position
\* amount or (b) none of its bracket ids is in the open-orders snapshot; it is
\* kept iff neither holds.  The snapshot is the exchange's state at the pass.
C6_ClosureRule ==
    IsPass =>
        /\ last.t.exists = (position_amt # 0)
        /\ open_orders \subseteq last.t.open_order_ids
        /\ last.t.open_order_ids \ open_orders \subseteq last.t.cancels
        /\ \A i \in DOMAIN PreActive :
              LET p == PreActive[i]
                  a == ~last.t.exists
                  b == OrderIds(p) \cap last.t.open_order_ids = {}
              IN  /\ (p.main_order_id \in last.t.judged_closed) <=> (a \/ b)
                  /\ (p \in Range(active_positions)) <=> ~(a \/ b)

\* in one pass with exposure on the exchange, a position whose brackets are
\* both gone was closed by (b) alone and one with an open bracket was kept
C6_Witness ==
    /\ IsPass /\ last.t.exists
    /\ \E i, j \in DOMAIN PreActive :
          /\ OrderIds(PreActive[i]) # {}
          /\ OrderIds(PreActive[i]) \cap last.t.open_order_ids = {}
          /\ PreActive[i].main_order_id \in last.t.judged_closed
          /\ OrderIds(PreActive[j]) \cap last.t.open_order_ids # {}
          /\ PreActive[j] \in Range(active_positions)

\* C7: in a pass, cancel_order is called for every bracket id of every
\* position judged closed, in the snapshot or not; the cancels that raised
\* are among them, nothing is raised to the caller, and every position judged
\* closed has left the active set.
C7_CancelEveryBracket ==
    IsPass =>
        /\ ~last.t.raised
        /\ last.t.cancel_failed \subseteq last.t.cancels
        /\ \A i \in DOMAIN PreActive :
              PreActive[i].main_order_id \in last.t.judged_closed =>
                  /\ OrderIds(PreActive[i]) \subseteq last.t.cancels
                  /\ PreActive[i] \notin Range(active_positions)

\* the cancel of the first bracket raised, the second bracket, which was not
\* in the snapshot, was cancelled all the same, and the position was removed
C7_Witness ==
    /\ IsPass
    /\ \E i \in DOMAIN PreActive :
          LET p == PreActive[i]
          IN  /\ p.main_order_id \in last.t.judged_closed
              /\ Len(p.orders) = 2
              /\ p.orders[1].id \in last.t.cancel_failed
              /\ p.orders[2].id \in last.t.cancels \ last.t.cancel_failed
              /\ p.orders[2].id \notin last.t.open_order_ids
              /\ p \notin Range(active_positions)

\* C8: a pass one of whose fetches failed raises nothing, judges nothing,
\* cancels nothing, writes no cache, and leaves the active set as it was.
C8_FetchFailureAborts ==
    (last.op = "check_closed_positions"
        /\ last.t.fetch \in {"orders_failed", "positions_failed"}) =>
        /\ ~last.t.raised
        /\ last.t.judged_closed = {}
        /\ last.t.cancels = {}
        /\ last.t.saves = <<>>
        /\ active_positions = PreActive

\* get_positions failed in a pass that would have closed a position with an
\* open bracket
C8_Witness ==
    /\ last.op = "check_closed_positions"
    /\ last.t.fetch = "positions_failed"
    /\ position_amt = 0
    /\ \E i \in DOMAIN active_positions :
          OrderIds(active_positions[i]) \cap open_orders # {}

\* order o is a bracket of a tracked position
Tracked(o) ==
    \E i \in DOMAIN active_positions : o \in OrderIds(active_positions[i])

\* C9: under FairSpec, whenever the stop loss of the first position opened
\* (order 2) belongs to a tracked position and the exposure on the exchange
\* has closed, eventually that position is no longer tracked and the stop loss
\* is no longer open on the exchange.
C9_EventuallyReconciled ==
    (Tracked(2) /\ position_amt = 0) ~> (~Tracked(2) /\ 2 \notin open_orders)

\* C10: a successful trade has appended its position as the last element of
\* the active set and then saved; when that save succeeded the cache file
\* decodes to exactly the active set, and a restart at that point loads the
\* active set from it: all of it when the reconciliation of the load cannot
\* fetch, and otherwise the new position unless the closure rule drops it.
C10_AddPositionPersists ==
    (IsTrade /\ last.t.success) =>
        /\ active_positions # <<>>
        /\ active_positions[Len(active_positions)] = last.t.position[1]
        /\ Len(active_positions) = last.t.seen_count + 1
        /\ PreLoaded => active_positions = Append(PreActive, last.t.position[1])
        /\ last.t.saves # <<>>
        /\ last.t.saves[Len(last.t.saves)] = "ok" =>
              /\ cache_file.kind = "list"
              /\ Decoded(cache_file) = active_positions
              /\ LET restarted == [World EXCEPT !.active = <<>>]
                     p == last.t.position[1]
                 IN  \A in \in ReconInputs([restarted EXCEPT !.active = active_positions]) :
                        LET loaded == load_positions(restarted, in).active
                        IN  /\ in.fetch # "ok" => loaded = active_positions
                            /\ p \in Range(loaded)
                                  \/ is_closed(p, open_orders, position_amt)

\* a second position was appended behind a first one and the save succeeded
C10_Witness ==
    /\ IsTrade /\ last.t.success /\ PreLoaded
    /\ PreActive # <<>>
    /\ last.t.saves = <<"ok">>
    /\ last.t.position[1].orders # <<>>

\* main_order_id of the tracked positions
TrackedIds == {active_positions[i].main_order_id : i \in DOMAIN active_positions}

\* some cache write of the last operation failed
SaveFailed == \E i \in DOMAIN last.t.saves : last.t.saves[i] # "ok"

\* C11: a failing cache write never reaches the caller and never rolls memory
\* back.  When a write inside add_position, check_closed_positions or
\* cleanup_position fails, the operation completes without raising and the
\* active set holds its result: the position a trade added is there, as the
\* last one, and the positions a reconciliation judged closed or a cleanup was
\* called for are gone.
C11_SaveFailureNonFatal ==
    SaveFailed =>
        /\ ~last.t.raised
        /\ (IsTrade /\ last.t.success) =>
               /\ active_positions # <<>>
               /\ active_positions[Len(active_positions)] = last.t.position[1]
        /\ last.t.judged_closed \cap TrackedIds = {}
        /\ (last.op = "cleanup_position") =>
               last.t.target[1].main_order_id \notin TrackedIds

\* a trade whose position was added although the cache file could not be opened
C11_Witness ==
    /\ IsTrade /\ last.t.success
    /\ last.t.saves = <<"open_failed">>
    /\ last.t.position[1] \in Range(active_positions)
    /\ Decoded(cache_file) # active_positions

\* C12: corrupt-cache recovery.  When the first access of the position manager
\* finds a cache file that is not valid JSON, load_positions does not raise,
\* the active set is empty afterwards and the cache file has been rewritten
\* with an empty structure.
C12_CorruptCacheCleared ==
    (last.op = "position_manager" /\ last.t.lazy_load
        /\ last.t.pre[1].file = Corrupt) =>
        /\ ~last.t.raised
        /\ active_positions = <<>>
        /\ cache_file = EmptyDict

IsCleanup == last.op = "cleanup_position"

\* the Position the last cleanup_position was called with
Target == last.t.target[1]

\* that Position was tracked when the call started
TargetWasTracked ==
    \E i \in DOMAIN PreActive : PreActive[i].main_order_id = Target.main_order_id

\* C14: cleanup_position(p) calls cancel_order for the order ids of p.orders
\* and for no other, so that no other order of the exchange is touched;
\* it removes from the active set exactly the positions whose main_order_id is
\* p.main_order_id and keeps the others in their order; when a position was
\* removed it writes the remaining set to the cache once.  All of this whether
\* or not a cancel fails.
C14_CleanupPositionFrame ==
    IsCleanup =>
        /\ last.t.cancels = OrderIds(Target)
        /\ open_orders = last.t.pre[1].orders \ (last.t.cancels \ last.t.cancel_failed)
        /\ active_positions =
              SelectSeq(PreActive, LAMBDA q : q.main_order_id # Target.main_order_id)
        /\ TargetWasTracked =>
              /\ Len(last.t.saves) = 1
              /\ last.t.saves[1] = "ok" =>
                    /\ cache_file.kind = "list"
                    /\ Decoded(cache_file) = active_positions

\* one of two tracked positions was cleaned up while one of its cancels
\* failed; the other one stays and the cache holds it
C14_Witness ==
    /\ IsCleanup /\ TargetWasTracked
    /\ Len(PreActive) = 2 /\ Len(active_positions) = 1
    /\ last.t.cancel_failed # {}
    /\ last.t.cancels # last.t.cancel_failed
    /\ OrderIds(active_positions[1]) \cap open_orders # {}
    /\ Decoded(cache_file) = active_positions

\* C15: cleanup_position(p) returns True exactly when no cancel_order of p's
\* bracket orders raised: each cancel either cancelled an open order or found
\* it already gone, which BinanceClient.cancel_order answers with a CANCELED
\* result (-2011).  It returns False if and only if at least one cancel raised,
\* and those are the cancels that failed with another error.
C15_CleanupPositionResult ==
    IsCleanup =>
        /\ last.t.success <=> (last.t.cancel_failed = {})
        /\ ~last.t.success <=>
              (\E o \in OrderIds(Target) : o \in last.t.cancel_failed)
        /\ last.t.cancel_failed \subseteq last.t.cancels

\* a cleanup returned True although one bracket was already gone from the
\* exchange and the other one was still open
C15_Witness ==
    /\ IsCleanup /\ last.t.success
    /\ Cardinality(OrderIds(Target)) = 2
    /\ \E o \in OrderIds(Target) : o \notin last.t.pre[1].orders
    /\ \E o \in OrderIds(Target) : o \in last.t.pre[1].orders

\* C16: idempotent cleanup.  A second cleanup_position call with the Position
\* of a first call, which is then no longer tracked, does not raise; it leaves
\* the active set and the cache file exactly as it found them (as the first
\* call left them); its cancels of orders that are no longer open change
\* nothing, and only a bracket of that Position that was still open can leave
\* the exchange.
C16_CleanupIdempotent ==
    (IsCleanup /\ ~TargetWasTracked) =>
        /\ ~last.t.raised
        /\ active_positions = PreActive
        /\ cache_file = last.t.pre[1].file
        /\ last.t.saves = <<>>
        /\ open_orders \subseteq last.t.pre[1].orders
        /\ last.t.pre[1].orders \ open_orders \subseteq OrderIds(Target)
        /\ (OrderIds(Target) \cap last.t.pre[1].orders = {}) =>
              open_orders = last.t.pre[1].orders

\* a second call for a Position whose brackets the first call had cancelled,
\* while another position is tracked and has an open bracket
C16_Witness ==
    /\ IsCleanup /\ ~TargetWasTracked
    /\ OrderIds(Target) # {}
    /\ OrderIds(Target) \cap last.t.pre[1].orders = {}
    /\ last.t.success
    /\ active_positions # <<>>
    /\ OrderIds(active_positions[1]) \cap open_orders # {}

\* the last operation was PositionManager._cleanup_all_positions
IsCleanupAll == last.op = "cleanup_all_positions"

\* the last operation was TradingExecutor.cleanup_all_positions
IsExecutorCleanupAll == last.op = "executor_cleanup_all_positions"

\* C17: a cleanup of all positions calls cancel_order for every order that was
\* open on the exchange for the pair when it started, the orders of no tracked
\* position included, and leaves the active set empty; the cache holds an
\* empty set once its writes have succeeded.  This whatever cancels fail.
C17_CleanupAllCancelsEveryOpenOrder ==
    (IsCleanupAll \/ IsExecutorCleanupAll) =>
        /\ last.t.pre[1].orders \subseteq last.t.cancels
        /\ active_positions = <<>>
        /\ ~SaveFailed => (cache_file.kind # "corrupt" /\ cache_file.items = <<>>)

\* the followed call has returned or raised
Finished == call.pc \in {"returned", "raised"}

\* the answer to request i makes the decorated body raise an exception that
\* the decorator retries
Transient(i) ==
    LET r == func(call.name, call.stream[i])
    IN  r.raised /\ is_allowed_exception(r.value) /\ ~is_non_retriable(r.value)

\* the answer to request i makes the decorated body return
Succeeds(i) == ~func(call.name, call.stream[i]).raised

\* C18: retry envelope.  One call of a client method sends the underlying
\* request at most max_retries = 3 times and always ends, by returning or by
\* raising.  When it returns, it returns the result of the first request that
\* succeeded, which is the last one it sent.  When the first 3 requests all
\* fail with transient errors, it ends by raising the error of the third one.
\* The summary retry(stream) used for the order calls counts the same requests.
C18_RetryEnvelope ==
    /\ [](/\ call.requests <= max_retries
          /\ Len(call.waits) <= max_retries
          /\ call.pc = "returned" =>
                /\ Succeeds(call.requests)
                /\ \A i \in 1..(call.requests - 1) : Transient(i)
                /\ call.result = <<func(call.name, call.stream[call.requests]).value>>
          /\ (Finished /\ \A i \in 1..max_retries : Transient(i)) =>
                /\ call.pc = "raised"
                /\ call.requests = max_retries
                /\ call.result = <<[error |-> call.stream[max_retries],
                                   attempt |-> max_retries - 1]>>
          /\ (Finished /\ call.name # "cancel_order"
                /\ \A i \in DOMAIN call.stream : call.stream[i] \in AttemptOutcomes) =>
                /\ retry(call.stream).calls = call.requests
                /\ retry(call.stream).ok = (call.pc = "returned"))
    /\ <>Finished

\* a call answered by two transient errors and then a success has returned
C18_Witness ==
    /\ call.pc = "returned"
    /\ call.requests = max_retries
    /\ call.waits = <<1, 2>>
    /\ call.stream[1] = "error" /\ call.stream[2] = "lost"

\* C19: a non-retriable exchange error (codes -2014, -2015, -1021, -1022) is
\* raised again by the attempt that met it: the call ends there with that same
\* error, no backoff wait follows it and the request is not sent again.  When
\* it answers the first request, the request has been sent exactly once and no
\* wait has happened at all.
C19_NonRetriableRaisedAtOnce ==
    /\ (call.requests >= 1 /\ call.stream[call.requests] = "fatal") =>
          /\ call.pc = "raised"
          /\ call.result = <<[error |-> "fatal", attempt |-> call.requests - 1]>>
          /\ Len(call.waits) = call.requests - 1
    /\ (call.requests >= 1 /\ call.stream[1] = "fatal") =>
          /\ call.requests = 1
          /\ call.waits = <<>>

\* a call whose first request was refused with a non-retriable code, although
\* the next request would have succeeded
C19_Witness ==
    /\ call.pc = "raised"
    /\ call.requests = 1
    /\ call.stream[1] = "fatal" /\ call.stream[2] = "ok"
    /\ call.waits = <<>>

\* C20: a cancel_order request that the exchange answers with 'unknown order'
\* (-2011) ends the call at that attempt with a CANCELED result: nothing is
\* raised, no backoff wait follows and the request is not sent again.  When it
\* answers the first request, cancel_order has returned after a single attempt
\* and without any wait.
C20_UnknownOrderIsSuccess ==
    /\ (call.name = "cancel_order" /\ call.requests >= 1
           /\ call.stream[call.requests] = "unknown") =>
          /\ call.pc = "returned"
          /\ call.result = <<"CANCELED">>
          /\ Len(call.waits) = call.requests - 1
    /\ (call.name = "cancel_order" /\ call.requests >= 1
           /\ call.stream[1] = "unknown") =>
          /\ call.requests = 1
          /\ call.waits = <<>>

\* cancel_order has returned CANCELED for an order the exchange did not know,
\* although the next request would have been refused
C20_Witness ==
    /\ call.name = "cancel_order"
    /\ call.pc = "returned"
    /\ call.result = <<"CANCELED">>
    /\ call.requests = 1
    /\ call.stream[1] = "unknown" /\ call.stream[2] = "error"

\* the positions of a cache file that the exchange state would judge closed
StaleInFile(file) ==
    {i \in DOMAIN file.items :
        is_closed(model_validate(file.items[i], now), open_orders, position_amt)}

\* C21: get_account_info is a pure read.  Whenever it is called, the first use
\* of the executor included, the active set, the cache file and the orders
\* open on the exchange are what they were before the call: it cancels
\* nothing, places nothing, removes nothing and writes nothing.
C21_GetAccountInfoPure ==
    (last.op = "get_account_info") =>
        /\ ~last.t.raised
        /\ active_positions = PreActive
        /\ cache_file = last.t.pre[1].file
        /\ open_orders = last.t.pre[1].orders
        /\ last.t.cancels = {}
        /\ last.t.saves = <<>>
        /\ NoOrderSubmitted

\* get_account_info was the first use of the executor after a restart, while
\* the cache file held a position that a reconciliation would have removed
\* and whose bracket it would have cancelled
C21_Witness ==
    /\ last.op = "get_account_info"
    /\ ~PreLoaded
    /\ cache_file.kind = "list"
    /\ \E i \in StaleInFile(cache_file) :
          OrderIds(model_validate(cache_file.items[i], now)) \cap open_orders # {}

\* the last operation was a run of the executor node of the agent
IsExecutorModule == last.op = "executor_module"

IterationError == bot.raised # "" \/ bot.order = "none"

\* C23: the run() loop is never left because of an error raised in one
\* iteration.  The loop ends only when a termination signal was handled;
\* after a failed reconciliation or a failed data fetch the handler of the
\* loop is reached and from there, like after a failed order, the top of the
\* loop again, unless a signal ends the process first; and so for ever.
C23_LoopSurvivesErrors ==
    /\ [](bot.pc = "exited" => bot.signal = "exited")
    /\ [](bot.raised # "" => bot.pc \in {"except", "top", "exited"})
    /\ (IterationError ~> (bot.pc = "top" \/ bot.pc = "exited"))
    /\ []<>(bot.pc = "top" \/ bot.pc = "exited")

\* the loop is at its top again after an iteration whose reconciliation
\* raised, with no signal handled
C23_Witness ==
    /\ bot.pc = "top"
    /\ bot.raised = "reconciliation"
    /\ bot.signal = "none"
    /\ active_positions # <<>>

\* is v tenths a one-decimal value nearest to P * (1 + p / 100), for a price
\* of P tenths and p hundredths of a percent, of either sign
Nearest(v, P, p) ==
    /\ 2 * (v - P) * HundredPercent - 2 * P * p <= HundredPercent
    /\ 2 * P * p - 2 * (v - P) * HundredPercent <= HundredPercent

\* C24: for a fill price P, stop_loss_percentage s and take_profit_percentage
\* t the levels are P*(1 - s/100) and P*(1 + t/100) for a BUY, and
\* P*(1 + s/100) and P*(1 - t/100) for a SELL, each rounded to one decimal;
\* P = 65000.0, s = 0.05, t = 0.1 gives 64967.5 and 65065.0 for a BUY.
C24_BracketLevels ==
    last.op = "calculate_sl_tp_levels" =>
        LET l == last.t.levels[1]
            P == l.entry_price
            s == l.stop_loss_percentage
            t == l.take_profit_percentage
        IN  /\ l.side = "BUY" =>
                  Nearest(l.sl_price, P, 0 - s) /\ Nearest(l.tp_price, P, t)
            /\ l.side = "SELL" =>
                  Nearest(l.sl_price, P, s) /\ Nearest(l.tp_price, P, 0 - t)
            /\ (l.side = "BUY" /\ P = 650000 /\ s = 5 /\ t = 10) =>
                  (l.sl_price = 649675 /\ l.tp_price = 650650)

\* the levels of a SELL at 100.0 with s = 0.05 and t = 0.25 were computed:
\* the stop lies half way between 100.0 and 100.1 and came out as 100.1
C24_Witness ==
    /\ last.op = "calculate_sl_tp_levels"
    /\ last.t.levels[1].side = "SELL"
    /\ last.t.levels[1].entry_price = 1000
    /\ last.t.levels[1].stop_loss_percentage = 5
    /\ last.t.levels[1].take_profit_percentage = 25
    /\ last.t.levels[1].sl_price = 1001
    /\ last.t.levels[1].tp_price = 998

\* the order refs of type ty of position p
RefsOfType(p, ty) == {i \in DOMAIN p.orders : p.orders[i].type = ty}

\* C25: in every reachable state every position of the active set has at most
\* one order ref of type stop_loss and at most one of type take_profit, and
\* so at most two order refs; this includes the positions load_positions
\* restored from the cache.
C25_AtMostOneRefOfEachType ==
    \A i \in DOMAIN active_positions :
        /\ Cardinality(RefsOfType(active_positions[i], "stop_loss")) <= 1
        /\ Cardinality(RefsOfType(active_positions[i], "take_profit")) <= 1
        /\ Len(active_positions[i].orders) <= 2

\* after a restart the first access of the position manager restored from
\* the cache a position with both of its refs, and kept it
C25_Witness ==
    /\ last.op = "position_manager"
    /\ last.t.lazy_load
    /\ PreActive = <<>>
    /\ \E i \in DOMAIN active_positions :
          /\ Cardinality(RefsOfType(active_positions[i], "stop_loss")) = 1
          /\ Cardinality(RefsOfType(active_positions[i], "take_profit")) = 1

\* the position the last trade recorded, as it stands in the active set
Recorded == active_positions[Len(active_positions)]

\* C26 (as stated): immediately after a successful open the recorded Position
\* holds exactly one stop-loss ref and exactly one take-profit ref, two
\* OrderRefs in all.
C26_ExactlyTwoRefs ==
    (IsTrade /\ last.t.success) =>
        /\ Cardinality(RefsOfType(Recorded, "stop_loss")) = 1
        /\ Cardinality(RefsOfType(Recorded, "take_profit")) = 1
        /\ Len(Recorded.orders) = 2

\* C26 (amended): immediately after a successful open the recorded Position
\* holds one stop-loss ref if the stop loss was placed and none if it was
\* not, and likewise for the take profit: two OrderRefs exactly when both
\* brackets were placed, and fewer when one of them failed.
C26_RefsOfPlacedBrackets ==
    (IsTrade /\ last.t.success) =>
        /\ active_positions # <<>>
        /\ Cardinality(RefsOfType(Recorded, "stop_loss")) = last.t.sl_placed
        /\ Cardinality(RefsOfType(Recorded, "take_profit")) = last.t.tp_placed
        /\ Len(Recorded.orders) = last.t.sl_placed + last.t.tp_placed
        /\ (Len(Recorded.orders) = 2 <=> (last.t.sl_placed = 1 /\ last.t.tp_placed = 1))

\* a trade succeeded with both brackets placed, and its position holds the
\* stop-loss ref and the take-profit ref
C26_Witness ==
    /\ IsTrade /\ last.t.success
    /\ last.t.sl_placed = 1 /\ last.t.tp_placed = 1
    /\ Len(Recorded.orders) = 2

\* the positions of the previous active set the last pass did not judge closed
Kept ==
    SelectSeq(PreActive, LAMBDA p : p.main_order_id \notin last.t.judged_closed)

\* C27: after a check_closed_positions pass whose fetches succeeded the active
\* set is the previous active set without the positions judged closed, in the
\* previous order and with every kept position unchanged; if a position was
\* removed the cache was saved once, with the kept set (which the file holds
\* when the save succeeded); if none was removed the cache was not written.
C27_PassFrame ==
    IsPass =>
        /\ active_positions = Kept
        /\ Len(Kept) < Len(PreActive) =>
              /\ Len(last.t.saves) = 1
              /\ last.t.saves[1] = "ok" =>
                    cache_file.kind = "list" /\ Decoded(cache_file) = Kept
        /\ Len(Kept) = Len(PreActive) =>
              /\ last.t.saves = <<>>
              /\ cache_file = last.t.pre[1].file

\* a pass removed the first of two tracked positions and kept the second, and
\* the cache was rewritten with the one kept
C27_Witness ==
    /\ IsPass
    /\ Len(PreActive) = 2
    /\ active_positions = <<PreActive[2]>>
    /\ last.t.saves = <<"ok">>
    /\ Decoded(cache_file) = active_positions

\* C28 (as stated): the limit check that precedes an order-placement decision
\* always sees a just-reconciled count: in every iteration of run() in which
\* the limit check has read len(active_positions), check_closed_positions has
\* run to completion earlier in that same iteration.
C28_LimitCheckSeesReconciledCount ==
    bot.seen_count # -1 => bot.reconciled

\* C29 (as stated): when two execute-trade calls on the same PositionManager
\* interleave at the granularity of their steps (limit check, order
\* placement, add_position), the active set still never holds more than
\* max_positions positions.
C29_NoOvershootUnderInterleaving ==
    (\E t \in Threads : threads[t].pc # "none") =>
        Len(active_positions) <= max_positions

\* main_order_id of the positions the cache file holds
CachedIds == {cache_file.items[i].main_order_id : i \in DOMAIN cache_file.items}

\* C30 (as stated): a signal that arrives while place_order is in progress
\* does not interrupt it: when the process has exited on the signal, no
\* position_info is left half built, so that a market order that filled has
\* its position in the flushed cache.
C30_SignalDoesNotInterruptOrder ==
    bot.pc = "exited" =>
        (bot.info = <<>> \/ bot.info[1].main_order_id \in CachedIds)

\* the last operation was a first access of the position manager, which ran
\* load_positions on a cache file holding a list
IsLoad ==
    /\ last.op = "position_manager" /\ last.t.lazy_load
    /\ last.t.pre[1].file.kind = "list"

\* the records of the cache the load started from
CachedItems == last.t.pre[1].file.items

\* the positions of the cached records Position.model_validate accepts, in
\* cache order
ValidCached ==
    LET valid == SelectSeq(CachedItems, IsValidRecord)
    IN  [i \in DOMAIN valid |-> model_validate(valid[i], now)]

\* C31: load_positions validates each cached record on its own.  The load
\* never raises, and the positions it sets are those of the valid records, in
\* cache order, whatever invalid records stand beside them: the active set
\* after the load is that sequence less the positions the reconciliation of
\* the load judged closed, and all of it when that reconciliation could not
\* fetch.
C31_PerRecordValidation ==
    IsLoad =>
        /\ ~last.t.raised
        /\ active_positions =
              SelectSeq(ValidCached,
                        LAMBDA p : p.main_order_id \notin last.t.judged_closed)
        /\ last.t.fetch # "ok" => active_positions = ValidCached

\* the cache held a record without side followed by a valid record, and the
\* load kept the position of the valid one
C31_Witness ==
    /\ IsLoad
    /\ Len(CachedItems) = 2
    /\ ~IsValidRecord(CachedItems[1])
    /\ IsValidRecord(CachedItems[2])
    /\ active_positions = <<model_validate(CachedItems[2], now)>>

\* the fields of a cached record, as the claim lists them
DeclaredFields ==
    {"main_order_id", "entry_price", "side", "quantity", "orders", "timestamp"}

\* C32 (as stated): a cached record with a field outside main_order_id,
\* entry_price, side, quantity, orders, timestamp, or without one of these, is
\* dropped by load_positions: no position of the active set after the load
\* comes from such a record.
C32_UnknownOrMissingFieldDropped ==
    IsLoad =>
        \A i \in DOMAIN CachedItems :
            DOMAIN CachedItems[i] # DeclaredFields =>
                \A j \in DOMAIN active_positions :
                    active_positions[j].main_order_id # CachedItems[i].main_order_id

\* the last operation was a trade whose access to the position manager loaded
\* a cache with at least one valid record
IsTradeOnLoadedSet ==
    /\ IsTrade /\ last.t.lazy_load
    /\ last.t.pre[1].file.kind = "list"
    /\ ValidCached # <<>>

\* C33: positions restored from the cache are reconciled before any use.  In
\* a trade whose access to the position manager loads the cache, a pass of
\* check_closed_positions has fetched (or tried to fetch) the exchange state
\* for the loaded set before the limit check reads the count; when the
\* fetches succeeded, the count the limit check sees leaves out every loaded
\* position the pass judged closed.
C33_ReconciledBeforeUse ==
    IsTradeOnLoadedSet =>
        /\ last.t.fetch # "none"
        /\ last.t.fetch = "ok" =>
              last.t.seen_count =
                  Cardinality({i \in DOMAIN ValidCached :
                      ValidCached[i].main_order_id \notin last.t.judged_closed})

\* a trade loaded a cached position that had been closed on the exchange while
\* the process was down; the reconciliation of the load dropped it and the
\* limit check saw no position
C33_Witness ==
    /\ IsTradeOnLoadedSet
    /\ last.t.fetch = "ok"
    /\ last.t.judged_closed # {}
    /\ last.t.seen_count = 0
    /\ last.t.success

\* the operations of PositionManager and of its callers that may write the
\* active set or the cache
PositionManagerOps ==
    {"position_manager", "execute_trade", "check_closed_positions",
     "cleanup_position", "cleanup_all_positions", "executor_cleanup_all_positions"}

\* how often the position with main_order_id id occurs in a list of positions
Occurrences(positions, id) ==
    Cardinality({i \in DOMAIN positions : positions[i].main_order_id = id})

\* C34: a position enters the active set or the cache only through
\* add_position after a successful open, or through load_positions.  A step
\* that changes the active set or the cache is an operation that goes through
\* the PositionManager (or the stop of the process, which empties the memory);
\* a main_order_id new to the active set is that of the
\* position a successful trade got from the order manager, or was in the
\* cache a load of this step read, and one new to the cache is in the active
\* set the PositionManager wrote it from (the set before the step or after
\* it, a save being taken of every intermediate set); a trade that fails adds
\* nothing, and a
\* trade that succeeds holds its position once, which it would not if
\* place_market_order had written the active set too.
C34_OnlyAddAndLoadAdmit ==
    [][/\ (active_positions' # active_positions \/ cache_file' # cache_file) =>
             \/ last'.op \in PositionManagerOps
             \/ last'.op = "restart" /\ active_positions' = <<>>
                   /\ cache_file' = cache_file
       /\ \A id \in TrackedIds' \ TrackedIds :
             \/ /\ last'.op = "execute_trade" /\ last'.t.success
                /\ last'.t.position # <<>>
                /\ id = last'.t.position[1].main_order_id
             \/ /\ last'.t.lazy_load
                /\ id \in CachedIds
       /\ CachedIds' \ CachedIds \subseteq TrackedIds \cup TrackedIds'
       /\ (last'.op = "execute_trade" /\ last'.t.position # <<>>) =>
             /\ last'.t.success
             /\ Occurrences(active_positions', last'.t.position[1].main_order_id) = 1
             /\ last'.t.position[1].main_order_id \notin TrackedIds \cup CachedIds]_vars

\* a trade opened a position next to one already tracked: the active set
\* and the cache hold the new position once
C34_Witness ==
    /\ IsTrade /\ last.t.success
    /\ PreLoaded /\ PreActive # <<>>
    /\ active_positions = Append(PreActive, last.t.position[1])
    /\ Occurrences(active_positions, last.t.position[1].main_order_id) = 1
    /\ last.t.position[1].main_order_id \in CachedIds

\* C35 (as stated): when the open operation fails, the error of the result of
\* execute_long_trade / execute_short_trade is the text of the exception the
\* market order failed with.
C35_ResultCarriesUnderlyingError ==
    (IsTrade /\ last.t.market_failed) => last.t.error = last.t.exception

\* the futures_create_order requests of the last operation of a given type
RequestsOfType(type) ==
    {i \in DOMAIN last.t.requests : last.t.requests[i].type = type}

BracketRequests == RequestsOfType("STOP_MARKET") \cup RequestsOfType("TAKE_PROFIT_MARKET")

\* C36: submission order within one open operation.  Every MARKET request
\* precedes every bracket request and every STOP_MARKET request precedes
\* every TAKE_PROFIT_MARKET request; a bracket request is sent, and a
\* Position is built, only when the market order was confirmed; every bracket
\* request is on the side opposite to the market order, for the same
\* quantity, and reduce-only.
C36_SubmissionOrder ==
    IsTrade =>
        /\ \A i \in RequestsOfType("MARKET") : \A j \in BracketRequests : i < j
        /\ \A i \in RequestsOfType("STOP_MARKET") :
              \A j \in RequestsOfType("TAKE_PROFIT_MARKET") : i < j
        /\ (BracketRequests # {} \/ last.t.position # <<>>) =>
              /\ RequestsOfType("MARKET") # {}
              /\ ~last.t.market_failed
              /\ last.t.market_placed >= 1
        /\ \A j \in BracketRequests :
              /\ last.t.requests[j].side # last.t.requests[1].side
              /\ last.t.requests[j].side \in Sides
              /\ last.t.requests[1].side = last.t.position[1].side
              /\ last.t.requests[j].quantity = last.t.requests[1].quantity
              /\ last.t.requests[j].reduceOnly

\* a short was opened at the second request for the market order, and both
\* brackets were sent as reduce-only BUY orders after it
C36_Witness ==
    /\ IsTrade /\ last.t.success
    /\ Len(last.t.requests) = 4
    /\ last.t.requests[1].type = "MARKET" /\ last.t.requests[1].side = "SELL"
    /\ last.t.requests[2].type = "MARKET"
    /\ last.t.requests[3] = [type |-> "STOP_MARKET", side |-> "BUY",
                             quantity |-> position_size, reduceOnly |-> TRUE]
    /\ last.t.requests[4] = [type |-> "TAKE_PROFIT_MARKET", side |-> "BUY",
                             quantity |-> position_size, reduceOnly |-> TRUE]

\* C37 (as stated): CacheManager.save replaces the file wholesale.  Whatever
\* point a save has reached, and whether or not the process was stopped inside
\* it, a load of the file returns the complete record the file held before the
\* save or the complete record being saved.
C37_LoadSeesCompleteRecord ==
    save.loaded # <<>> =>
        save.loaded[1] \in {load(save.previous), load(JsonList(save.data))}

\* ids of the bracket orders of the positions of the active set
TrackedOrderIds ==
    UNION {OrderIds(active_positions[i]) : i \in DOMAIN active_positions}

\* C38 (as stated): no orphan bracket orders.  While the position manager is
\* up, every bracket order the program placed that is still open on the
\* exchange belongs to a position of the active set.
C38_NoOrphanBrackets == pm_loaded => open_orders \subseteq TrackedOrderIds

\* C39 (as stated): the bracket prices straddle the entry price.  For every
\* fill price and every pair of percentages, _calculate_sl_tp_levels returns
\* sl < P < tp for a BUY and tp < P < sl for a SELL, after the rounding to one
\* decimal.
C39_BracketsStraddleEntry ==
    last.op = "calculate_sl_tp_levels" =>
        LET l == last.t.levels[1]
        IN  IF l.side = "BUY"
            THEN l.sl_price < l.entry_price /\ l.entry_price < l.tp_price
            ELSE l.tp_price < l.entry_price /\ l.entry_price < l.sl_price

\* the last operation was a run of the agent workflow
IsRun == last.op = "workflow"

\* C40 (as stated): a run whose risk assessment is FAVORABLE, with a long or
\* short signal active and the position limit not reached, ends with the
\* executor node calling execute_long_trade or execute_short_trade, which
\* sends one market order; a run whose assessment is not FAVORABLE never
\* reaches the executor node and sends no order.
C40_FavorableRunExecutes ==
    IsRun =>
        /\ (/\ last.t.risk_assessment[1].assessment = "FAVORABLE"
            /\ last.t.signals # <<>>
            /\ last.t.signals[1].long \/ last.t.signals[1].short
            /\ last.t.seen_count < max_positions) =>
               /\ last.t.market_sub >= 1
               /\ last.t.success \/ last.t.error \in {"Failed to open long position",
                                                       "Failed to open short position"}
        /\ last.t.risk_assessment[1].assessment # "FAVORABLE" =>
               /\ last.t.route = "END"
               /\ last.t.signals = <<>>
               /\ NoOrderSubmitted

====
